---- MODULE Spec2Model ----
(***************************************************************************)
(* Model of the cadastral parcel identifier parsers (app/parsers) and of   *)
(* the ArcGIS query client (app/arcgis.py): query_features, search_parcels *)
(* and query_parcels_bulk.                                                 *)
(*                                                                         *)
(* A Python str is a sequence of one-character strings; None is the        *)
(* sentinel NoneVal.  A function that may raise returns a record whose ok  *)
(* field says whether it returned, and whose err field is the message of   *)
(* the exception it raised.                                                *)
(***************************************************************************)
EXTENDS Integers, Sequences, FiniteSets, TLC

VARIABLES
    state,        \* the ParcelState of the call
    pc,           \* position of the call
    raw_text,     \* parse_parcel_input: the raw text of the call
    valid,        \* parse_*: the list of ParsedParcel returned
    malformed,    \* parse_*: the list of MalformedEntry returned
    renorm,       \* result of feeding a returned id back to the normalizer
    parcel_ids,   \* query_features: the identifiers of the call
    max_ids_per_chunk,  \* ArcGISClient.max_ids_per_chunk
    bbox,         \* query_features: the bounding box of the call, <<>> for None
    attempt,      \* tenacity: the number of the attempt of query_features
    queries,      \* _query_sa_features: the list of (field_name, values)
    query_index,  \* _query_sa_features: position of the loop in queries
    offset,       \* the loop variable i of range(0, len(...), max_ids_per_chunk)
    all_features, \* query_features: the features collected so far
    dedup,        \* _query_sa_features: the features collected so far, by key
    requests,     \* the HTTP GET requests issued so far and what came back
    result,       \* what the call returned or raised
    term,         \* search_parcels: the search term of the call
    page,         \* search_parcels: the page of the call
    page_size,    \* search_parcels: the page size of the call
    raised,       \* search_parcels: the exception of the attempt that failed
    sleeps,       \* tenacity: the number of backoff waits of search_parcels
    parcel_ids_by_state,  \* query_parcels_bulk: the (state, parcel_ids) items
    tasks,        \* query_parcels_bulk: the query_features tasks created
    results,      \* query_parcels_bulk: what each task returned or raised so far
    limiter,      \* RateLimiter: max_requests, window_seconds and requests
    now,          \* time.time()
    calls,        \* the is_allowed calls so far and what they returned
    session,      \* ArcGISClient.session, and how often it was closed
    flights       \* the GETs each query_features task has sent, and what came back

parseVars == <<raw_text, valid, malformed, renorm>>

queryVars ==
    <<parcel_ids, max_ids_per_chunk, bbox, attempt, queries, query_index, offset,
      all_features, dedup, requests, result>>

searchVars == <<term, page, page_size, raised, sleeps>>

bulkVars == <<parcel_ids_by_state, tasks, results>>

limiterVars == <<limiter, now, calls>>

sessionVars == <<session, flights>>

extVars == <<limiterVars, sessionVars>>

vars == <<state, pc, parseVars, queryVars, searchVars, bulkVars, extVars>>

(***************************************************************************)
(* Python str and re primitives                                            *)
(***************************************************************************)
NoneVal == << "<None>" >>

Digits == {"0", "1", "2", "3", "4", "5", "6", "7", "8", "9"}

DigitSeq == <<"0", "1", "2", "3", "4", "5", "6", "7", "8", "9">>

UpperSeq == <<"A", "B", "C", "D", "E", "F", "G", "H", "I", "J", "K", "L", "M",
              "N", "O", "P", "Q", "R", "S", "T", "U", "V", "W", "X", "Y", "Z">>

LowerSeq == <<"a", "b", "c", "d", "e", "f", "g", "h", "i", "j", "k", "l", "m",
              "n", "o", "p", "q", "r", "s", "t", "u", "v", "w", "x", "y", "z">>

UpperLetters == {UpperSeq[i] : i \in 1..26}

LowerLetters == {LowerSeq[i] : i \in 1..26}

UpperAlnum == UpperLetters \cup Digits

Whitespace == {" ", "\t", "\n", "\r"}

WordChars == UpperLetters \cup LowerLetters \cup Digits \cup {"_"}

UpperMap == [c \in LowerLetters |-> UpperSeq[CHOOSE i \in 1..26 : LowerSeq[i] = c]]

\* str.upper()
Upper(s) == [i \in 1..Len(s) |-> IF s[i] \in LowerLetters THEN UpperMap[s[i]] ELSE s[i]]

AllIn(s, S) == \A i \in 1..Len(s) : s[i] \in S

\* length of the longest prefix of s[i..] made of characters of S
RECURSIVE RunLen(_, _, _)
RunLen(s, i, S) ==
    IF i > Len(s) \/ s[i] \notin S THEN 0 ELSE 1 + RunLen(s, i + 1, S)

RECURSIVE LStrip(_)
LStrip(s) == IF s # <<>> /\ Head(s) \in Whitespace THEN LStrip(Tail(s)) ELSE s

RECURSIVE RStrip(_)
RStrip(s) ==
    IF s # <<>> /\ s[Len(s)] \in Whitespace THEN RStrip(SubSeq(s, 1, Len(s) - 1)) ELSE s

\* str.strip()
Strip(s) == RStrip(LStrip(s))

\* re.sub(r"[S]+", "", s) and str.replace(c, "")
RECURSIVE RemoveChars(_, _)
RemoveChars(s, S) ==
    IF s = <<>> THEN <<>>
    ELSE IF Head(s) \in S THEN RemoveChars(Tail(s), S)
    ELSE <<Head(s)>> \o RemoveChars(Tail(s), S)

\* re.sub(r"[S]+", " ", s): every maximal run of characters of S becomes one space
RECURSIVE RunsToSpace(_, _)
RunsToSpace(s, S) ==
    IF s = <<>> THEN <<>>
    ELSE IF Head(s) \in S
         THEN <<" ">> \o RunsToSpace(SubSeq(s, 1 + RunLen(s, 1, S), Len(s)), S)
         ELSE <<Head(s)>> \o RunsToSpace(Tail(s), S)

\* str.replace(a, b) for single characters
ReplaceChar(s, a, b) == [i \in 1..Len(s) |-> IF s[i] = a THEN b ELSE s[i]]

\* str.split(sep) for a separator among the characters of S: empty pieces are kept
RECURSIVE SplitKeep(_, _)
SplitKeep(s, S) ==
    LET n == RunLen(s, 1, {c \in {s[i] : i \in 1..Len(s)} : c \notin S})
    IN  IF n = Len(s) THEN <<s>>
        ELSE <<SubSeq(s, 1, n)>> \o SplitKeep(SubSeq(s, n + 2, Len(s)), S)

\* [t for t in re.split(r"[S]+", s) if t]: the maximal runs of characters not in S
RECURSIVE Tokens(_, _)
Tokens(s, S) ==
    IF s = <<>> THEN <<>>
    ELSE IF Head(s) \in S THEN Tokens(Tail(s), S)
    ELSE LET n == RunLen(s, 1, {c \in {s[i] : i \in 1..Len(s)} : c \notin S})
         IN  <<SubSeq(s, 1, n)>> \o Tokens(SubSeq(s, n + 1, Len(s)), S)

\* [x for x in xs if x not in S]
RECURSIVE DropMembers(_, _)
DropMembers(xs, S) ==
    IF xs = <<>> THEN <<>>
    ELSE IF Head(xs) \in S THEN DropMembers(Tail(xs), S)
    ELSE <<Head(xs)>> \o DropMembers(Tail(xs), S)

\* "sep".join(xs)
RECURSIVE Join(_, _)
Join(xs, sep) ==
    IF xs = <<>> THEN <<>>
    ELSE IF Len(xs) = 1 THEN xs[1]
    ELSE xs[1] \o sep \o Join(Tail(xs), sep)

\* \b of re at position i (between s[i-1] and s[i])
WordBoundary(s, i) ==
    LET before == i > 1 /\ i - 1 <= Len(s) /\ s[i - 1] \in WordChars
        after == i >= 1 /\ i <= Len(s) /\ s[i] \in WordChars
    IN  before # after

\* s[i..] starts with w
StartsAt(s, i, w) == i + Len(w) - 1 <= Len(s) /\ SubSeq(s, i, i + Len(w) - 1) = w

\* re.sub(r"\bW\b", rep, s) for a literal word W
SubWord(s, w, rep) ==
    LET F[i \in 1..(Len(s) + 1)] ==
            IF i > Len(s) THEN <<>>
            ELSE IF StartsAt(s, i, w) /\ WordBoundary(s, i) /\ WordBoundary(s, i + Len(w))
                 THEN rep \o F[i + Len(w)]
                 ELSE <<s[i]>> \o F[i + 1]
    IN  F[1]

\* int(s) for a string of ASCII digits
RECURSIVE Str2Int(_)
Str2Int(s) ==
    IF s = <<>> THEN 0
    ELSE 10 * Str2Int(SubSeq(s, 1, Len(s) - 1))
         + ((CHOOSE k \in 1..10 : DigitSeq[k] = s[Len(s)]) - 1)

\* str(n) for n >= 0
RECURSIVE Int2Str(_)
Int2Str(n) ==
    IF n < 10 THEN <<DigitSeq[n + 1]>>
    ELSE Int2Str(n \div 10) \o <<DigitSeq[(n % 10) + 1]>>

\* the characters of a word given as a sequence of one-character strings
S_LOT == <<"L", "O", "T">>

S_LOTS == <<"L", "O", "T", "S">>

S_SEC == <<"S", "E", "C">>

S_SECT == <<"S", "E", "C", "T">>

S_SECTION == <<"S", "E", "C", "T", "I", "O", "N">>

S_PLAN == <<"P", "L", "A", "N">>

Ok(id, lot, section, plan) ==
    [ok |-> TRUE, id |-> id, lot |-> lot, section |-> section, plan |-> plan, err |-> ""]

Raise(msg) ==
    [ok |-> FALSE, id |-> NoneVal, lot |-> NoneVal, section |-> NoneVal,
     plan |-> NoneVal, err |-> msg]

(***************************************************************************)
(* parsers/nsw.py                                                          *)
(***************************************************************************)
\* _LOT_SECTION_PATTERN  ^[A-Z0-9]+$
NSW_LOT_SECTION_PATTERN(s) == s # <<>> /\ AllIn(s, UpperAlnum)

\* _PLAN_PATTERN  ^[A-Z]+[A-Z0-9]*$
NSW_PLAN_PATTERN(s) == s # <<>> /\ s[1] \in UpperLetters /\ AllIn(s, UpperAlnum)

NSW_NOISE_TOKENS == {S_LOT, S_LOTS, S_SEC, S_SECTION, S_SECT, S_PLAN}

\* re.sub(r"\s+", "", value.upper())
nsw_cleaned(value) == RemoveChars(Upper(value), Whitespace)

\* _normalize_lot_section: the cleaned value, or <<>> where the code raises
nsw_normalize_lot_section(value) ==
    LET Checked(cleaned) ==
            IF cleaned = <<>> \/ ~NSW_LOT_SECTION_PATTERN(cleaned) THEN <<>> ELSE cleaned
    IN  Checked(nsw_cleaned(value))

\* _normalize_plan: the cleaned value, or <<>> where the code raises
nsw_normalize_plan(value) ==
    LET Checked(cleaned) ==
            IF cleaned = <<>> \/ ~NSW_PLAN_PATTERN(cleaned) THEN <<>> ELSE cleaned
    IN  Checked(nsw_cleaned(value))

\* _canonical_id(lot, plan, section); section is NoneVal when absent.  The
\* messages of the raises are given without the quoted value.
nsw_canonical_id(lot, plan, section) ==
    LET Identifier(lot_clean, section_clean, plan_clean) ==
            IF lot_clean = <<>> THEN Raise("Invalid NSW lot")
            ELSE IF section_clean = <<>> THEN Raise("Invalid NSW section")
            ELSE IF plan_clean = <<>> THEN Raise("Invalid NSW plan")
            ELSE IF section_clean # NoneVal
                 THEN Ok(lot_clean \o <<"/">> \o section_clean \o <<"/", "/">> \o plan_clean,
                         lot_clean, section_clean, plan_clean)
                 ELSE Ok(lot_clean \o <<"/", "/">> \o plan_clean, lot_clean, NoneVal,
                         plan_clean)
    IN  Identifier(nsw_normalize_lot_section(lot),
                   IF section # NoneVal /\ section # <<>>
                   THEN nsw_normalize_lot_section(section) ELSE NoneVal,
                   nsw_normalize_plan(plan))

\* _join_plan_tokens for a non-empty token list: <<remaining, plan>>
nsw_join_plan_tokens(tokens) ==
    IF /\ Len(tokens) >= 2
       /\ tokens[Len(tokens)] # <<>> /\ AllIn(tokens[Len(tokens)], Digits)
       /\ tokens[Len(tokens) - 1] # <<>> /\ AllIn(tokens[Len(tokens) - 1], UpperLetters)
    THEN <<SubSeq(tokens, 1, Len(tokens) - 2), tokens[Len(tokens) - 1] \o tokens[Len(tokens)]>>
    ELSE <<SubSeq(tokens, 1, Len(tokens) - 1), tokens[Len(tokens)]>>

\* re.sub(r"\b([A-Z]{2,})\s+(\d+)\b", r"\1\2", s)
nsw_join_alpha_digits(s) ==
    LET \* a match at i: nl letters, nw blanks, nd digits
        At(i, nl, nw, nd) ==
            /\ WordBoundary(s, i) /\ nl >= 2 /\ nw >= 1 /\ nd >= 1
            /\ WordBoundary(s, i + nl + nw + nd)
        F[i \in 1..(Len(s) + 1)] ==
            IF i > Len(s) THEN <<>>
            ELSE LET nl == RunLen(s, i, UpperLetters)
                     nw == RunLen(s, i + nl, Whitespace)
                     nd == RunLen(s, i + nl + nw, Digits)
                 IN  IF At(i, nl, nw, nd)
                     THEN SubSeq(s, i, i + nl - 1)
                          \o SubSeq(s, i + nl + nw, i + nl + nw + nd - 1)
                          \o F[i + nl + nw + nd]
                     ELSE <<s[i]>> \o F[i + 1]
    IN  F[1]

\* the three anchored patterns of _parse_fragment give <<lot, section, plan>>, or
\* <<>> when they do not match; p are the pieces between the separators

\* _CANONICAL_PATTERN  ^(lot)(?:/(section))?//(plan)$
NSW_CANONICAL_PATTERN(s) ==
    LET Groups(p) ==
            IF /\ Len(p) = 3 /\ p[2] = <<>>
               /\ NSW_LOT_SECTION_PATTERN(p[1]) /\ NSW_PLAN_PATTERN(p[3])
            THEN <<p[1], NoneVal, p[3]>>
            ELSE IF /\ Len(p) = 4 /\ p[3] = <<>>
                    /\ NSW_LOT_SECTION_PATTERN(p[1]) /\ NSW_LOT_SECTION_PATTERN(p[2])
                    /\ NSW_PLAN_PATTERN(p[4])
            THEN <<p[1], p[2], p[4]>>
            ELSE <<>>
    IN  Groups(SplitKeep(s, {"/"}))

\* _SINGLE_SLASH_PATTERN  ^(lot)(?:/(section))?/(plan)$
NSW_SINGLE_SLASH_PATTERN(s) ==
    LET Groups(p) ==
            IF Len(p) = 2 /\ NSW_LOT_SECTION_PATTERN(p[1]) /\ NSW_PLAN_PATTERN(p[2])
            THEN <<p[1], NoneVal, p[2]>>
            ELSE IF /\ Len(p) = 3
                    /\ NSW_LOT_SECTION_PATTERN(p[1]) /\ NSW_LOT_SECTION_PATTERN(p[2])
                    /\ NSW_PLAN_PATTERN(p[3])
            THEN <<p[1], p[2], p[3]>>
            ELSE <<>>
    IN  Groups(SplitKeep(s, {"/"}))

\* _LOT_PLAN_SENTENCE  ^LOT\s+(lot)(?:\s+(?:SEC|SECTION)\s+(section))?\s+(plan)$
\* on a text whose whitespace runs are single characters
NSW_LOT_PLAN_SENTENCE(s) ==
    LET Groups(p) ==
            IF /\ Len(p) = 3 /\ p[1] = S_LOT
               /\ NSW_LOT_SECTION_PATTERN(p[2]) /\ NSW_PLAN_PATTERN(p[3])
            THEN <<p[2], NoneVal, p[3]>>
            ELSE IF /\ Len(p) = 5 /\ p[1] = S_LOT /\ p[3] \in {S_SEC, S_SECTION}
                    /\ NSW_LOT_SECTION_PATTERN(p[2]) /\ NSW_LOT_SECTION_PATTERN(p[4])
                    /\ NSW_PLAN_PATTERN(p[5])
            THEN <<p[2], p[4], p[5]>>
            ELSE <<>>
    IN  Groups(SplitKeep(s, Whitespace))

\* lines 68-75 of _parse_fragment: the cleaned text the patterns are tried on
nsw_clean_fragment(raw) ==
    nsw_join_alpha_digits(
        RunsToSpace(
            SubWord(ReplaceChar(Upper(Strip(raw)), "\\", "/"), S_SECTION, S_SEC),
            Whitespace))

\* _parse_fragment
nsw_parse_fragment(raw) ==
    LET \* the groups found, or the message of the raise
        Found(g) == [err |-> "", lot |-> g[1], section |-> g[2], plan |-> g[3]]
        NotFound(msg) == [err |-> msg, lot |-> <<>>, section |-> NoneVal, plan |-> <<>>]
        \* lines 104-110: j is the result of _join_plan_tokens
        LotSection(j) ==
            IF j[1] = <<>> THEN NotFound("Missing NSW lot value")
            ELSE Found(<<j[1][1], IF Len(j[1]) > 1 THEN j[1][2] ELSE NoneVal, j[2]>>)
        \* lines 98-110: the token fallback, on the tokens left after the noise filter
        FromTokens(tokens) ==
            IF tokens = <<>> THEN NotFound("Unable to parse NSW lot/plan")
            ELSE LotSection(nsw_join_plan_tokens(tokens))
        \* lines 77-99: the first pattern that matches decides, the tokens come last
        FirstMatch(upper, canon, single, sentence) ==
            IF canon # <<>> THEN Found(canon)
            ELSE IF single # <<>> THEN Found(single)
            ELSE IF sentence # <<>> THEN Found(sentence)
            ELSE FromTokens(DropMembers(Tokens(upper, Whitespace \cup {",", ";", "/"}),
                                        NSW_NOISE_TOKENS))
        Match(upper) ==
            FirstMatch(upper, NSW_CANONICAL_PATTERN(upper), NSW_SINGLE_SLASH_PATTERN(upper),
                       NSW_LOT_PLAN_SENTENCE(upper))
        \* the return statements
        Return(g) ==
            IF g.err # "" THEN Raise(g.err) ELSE nsw_canonical_id(g.lot, g.plan, g.section)
    IN  IF Strip(raw) = <<>> THEN Raise("Empty NSW parcel token")
        ELSE Return(Match(nsw_clean_fragment(raw)))

\* normalize_nsw_identifier
normalize_nsw_identifier(raw) == nsw_parse_fragment(raw)

\* ParsedParcel(...) and MalformedEntry(...)
ParsedParcel(id, st, raw, lot, section, plan, volume, folio) ==
    [id |-> id, state |-> st, raw |-> raw, lot |-> lot, section |-> section,
     plan |-> plan, volume |-> volume, folio |-> folio]

MalformedEntry(raw, error) == [raw |-> raw, error |-> error]

\* what one fragment appends to the two lists
Appends(v, m) == [valid |-> v, malformed |-> m]

\* the range pattern of parse_nsw, line 127 (re.IGNORECASE)
\*   ^(?P<start>[A-Z0-9]+)-(?:\s*)(?P<end>[A-Z0-9]+)//(?P<plan>.+)$
\* <<start, end, plan>>, or <<>> when the line is no range
nsw_range_match(line) ==
    LET \* ns characters of start, nw blanks, ne characters of end
        Groups(ns, nw, ne) ==
            IF /\ ns >= 1 /\ ns + 1 <= Len(line) /\ line[ns + 1] = "-"
               /\ ne >= 1 /\ StartsAt(line, ns + 2 + nw + ne, <<"/", "/">>)
               /\ ns + 2 + nw + ne + 2 <= Len(line)
            THEN <<SubSeq(line, 1, ns), SubSeq(line, ns + 2 + nw, ns + 1 + nw + ne),
                   SubSeq(line, ns + 2 + nw + ne + 2, Len(line))>>
            ELSE <<>>
        End(ns, nw) == Groups(ns, nw, RunLen(line, ns + 2 + nw, UpperAlnum \cup LowerLetters))
        Blank(ns) == End(ns, RunLen(line, ns + 2, Whitespace))
    IN  Blank(RunLen(line, 1, UpperAlnum \cup LowerLetters))

\* the lines of parse_nsw and parse_vic:
\* [line.strip() for line in raw_text.split("\n") if line.strip()]
RECURSIVE StrippedNonEmpty(_)
StrippedNonEmpty(xs) ==
    IF xs = <<>> THEN <<>>
    ELSE IF Strip(Head(xs)) = <<>> THEN StrippedNonEmpty(Tail(xs))
    ELSE <<Strip(Head(xs))>> \o StrippedNonEmpty(Tail(xs))

nsw_lines(text) == StrippedNonEmpty(SplitKeep(text, {"\n"}))

\* nsw_expand_range with range(start, end) in the place of range(start, end + 1)
nsw_expand_range_exclusive(line, start, end, plan) ==
    LET Parcel(c) == ParsedParcel(c.id, "NSW", line, c.lot, NoneVal, c.plan, NoneVal, NoneVal)
    IN  [k \in 1..(end - start) |->
            Parcel(nsw_canonical_id(Int2Str(start + k - 1), plan, NoneVal))]

\* lines 136-146: the ParsedParcel of every lot of the range, in ascending order
nsw_expand_range(line, start, end, plan) ==
    LET Parcel(c) == ParsedParcel(c.id, "NSW", line, c.lot, NoneVal, c.plan, NoneVal, NoneVal)
    IN  [k \in 1..(end - start + 1) |->
            Parcel(nsw_canonical_id(Int2Str(start + k - 1), plan, NoneVal))]

\* lines 129-147: a line that is a range of numeric lots
nsw_parse_range(line, start, end, plan) ==
    IF plan = <<>> THEN Appends(<<>>, <<MalformedEntry(line, "Invalid NSW plan")>>)
    ELSE IF end < start \/ end - start > 200
    THEN Appends(<<>>, <<MalformedEntry(line, "Range too large or invalid (max 200 lots)")>>)
    ELSE Appends(nsw_expand_range(line, start, end, plan), <<>>)

\* the body of the loop of parse_nsw for one line
nsw_parse_line(line) ==
    LET \* lines 149-167: a single parcel, r is what _parse_fragment gave
        Single(r) ==
            IF r.ok
            THEN Appends(<<ParsedParcel(r.id, "NSW", line, r.lot, r.section, r.plan,
                                        NoneVal, NoneVal)>>, <<>>)
            ELSE Appends(<<>>, <<MalformedEntry(line, r.err)>>)
        \* line 128: m is the match of the range pattern
        Matched(m) ==
            IF m # <<>> /\ AllIn(m[1], Digits) /\ AllIn(m[2], Digits)
            THEN nsw_parse_range(line, Str2Int(m[1]), Str2Int(m[2]), nsw_normalize_plan(m[3]))
            ELSE Single(nsw_parse_fragment(line))
    IN  Matched(nsw_range_match(line))

\* the two lists after one more fragment
Extend(h, t) == Appends(h.valid \o t.valid, h.malformed \o t.malformed)

\* parse_nsw
RECURSIVE nsw_parse_lines(_)
nsw_parse_lines(lines) ==
    IF lines = <<>> THEN Appends(<<>>, <<>>)
    ELSE Extend(nsw_parse_line(Head(lines)), nsw_parse_lines(Tail(lines)))

parse_nsw(text) == nsw_parse_lines(nsw_lines(text))

(***************************************************************************)
(* parsers/qld.py                                                          *)
(***************************************************************************)
Letters == UpperLetters \cup LowerLetters

QLD_NOISE_TOKENS ==
    {S_LOT, S_PLAN, <<"O", "N">>, <<"O", "F">>, <<"N", "U", "M", "B", "E", "R">>,
     <<"N", "O">>, <<"N", "O", ".">>, <<"S", "T", "A", "G", "E">>, <<"U", "N", "I", "T">>}

\* a match of one of the lot/plan patterns: the groups lot, prefix, number
QldMatch(lot, prefix, number) == [hit |-> TRUE, lot |-> lot, prefix |-> prefix, number |-> number]

QldNoMatch == [hit |-> FALSE, lot |-> <<>>, prefix |-> <<>>, number |-> <<>>]

\* _LOTPLAN_WITH_SPACES  ^(\d+[A-Z]?)\s+([A-Z]{1,4})\s*(\d+)$  (re.IGNORECASE)
\* nd digits, the lot ends at e1, the blanks at e2, the prefix at e3, the optional
\* blanks at e4, the number at e5
QLD_LOTPLAN_WITH_SPACES(s) ==
    LET Groups(nd, e1, e2, e3, e4, e5) ==
            IF nd >= 1 /\ e2 > e1 /\ e3 > e2 /\ e3 - e2 <= 4 /\ e5 > e4 /\ e5 = Len(s)
            THEN QldMatch(SubSeq(s, 1, e1), SubSeq(s, e2 + 1, e3), SubSeq(s, e4 + 1, e5))
            ELSE QldNoMatch
        Number(nd, e1, e2, e3, e4) ==
            Groups(nd, e1, e2, e3, e4, e4 + RunLen(s, e4 + 1, Digits))
        Blanks(nd, e1, e2, e3) == Number(nd, e1, e2, e3, e3 + RunLen(s, e3 + 1, Whitespace))
        Prefix(nd, e1, e2) == Blanks(nd, e1, e2, e2 + RunLen(s, e2 + 1, Letters))
        Gap(nd, e1) == Prefix(nd, e1, e1 + RunLen(s, e1 + 1, Whitespace))
        Lot(nd) == Gap(nd, IF nd + 1 <= Len(s) /\ s[nd + 1] \in Letters THEN nd + 1 ELSE nd)
    IN  Lot(RunLen(s, 1, Digits))

\* _LOTPLAN_COMPACT  ^(\d+[A-Z]?)([A-Z]{1,4})(\d+)$  (re.IGNORECASE)
\* nd digits, na letters, nn digits
QLD_LOTPLAN_COMPACT(s) ==
    LET Groups(nd, na, nn) ==
            IF nd >= 1 /\ na >= 1 /\ na <= 5 /\ nn >= 1 /\ nd + na + nn = Len(s)
            THEN QldMatch(SubSeq(s, 1, IF na >= 2 THEN nd + 1 ELSE nd),
                          SubSeq(s, IF na >= 2 THEN nd + 2 ELSE nd + 1, nd + na),
                          SubSeq(s, nd + na + 1, Len(s)))
            ELSE QldNoMatch
        Number(nd, na) == Groups(nd, na, RunLen(s, nd + na + 1, Digits))
        Prefix(nd) == Number(nd, RunLen(s, nd + 1, Letters))
    IN  Prefix(RunLen(s, 1, Digits))

\* _PLAN_ONLY  ^([A-Z]{1,4})\s*(\d+)$  (re.IGNORECASE)
\* np letters, nv blanks, nn digits
QLD_PLAN_ONLY(s) ==
    LET Groups(np, nv, nn) ==
            IF np >= 1 /\ np <= 4 /\ nn >= 1 /\ np + nv + nn = Len(s)
            THEN QldMatch(<<>>, SubSeq(s, 1, np), SubSeq(s, np + nv + 1, Len(s)))
            ELSE QldNoMatch
        Number(np, nv) == Groups(np, nv, RunLen(s, np + nv + 1, Digits))
        Blanks(np) == Number(np, RunLen(s, np + 1, Whitespace))
    IN  Blanks(RunLen(s, 1, Letters))

\* re.fullmatch(r"\d+[A-Z]?", s), line 76
QldLotToken(s) ==
    LET Lot(nd) == nd >= 1 /\ (nd = Len(s) \/ (nd + 1 = Len(s) /\ s[Len(s)] \in UpperLetters))
    IN  Lot(RunLen(s, 1, Digits))

\* _normalise_token where the noise tokens stay
qld_normalise_token_keeps_noise(raw) ==
    LET Cleaned(cleaned) ==
            Join(Tokens(RunsToSpace(RunsToSpace(RunsToSpace(cleaned, {"\\", "/", "-"}),
                                                {",", "\t"}),
                                    Whitespace),
                        {" "}),
                 <<" ">>)
    IN  Cleaned(Upper(Strip(raw)))

\* _normalise_token
qld_normalise_token(raw) ==
    LET \* lines 26-35
        Cleaned(cleaned) ==
            Join(DropMembers(Tokens(RunsToSpace(RunsToSpace(RunsToSpace(cleaned,
                                                                        {"\\", "/", "-"}),
                                                            {",", "\t"}),
                                                Whitespace),
                                    {" "}),
                             QLD_NOISE_TOKENS),
                 <<" ">>)
    IN  Cleaned(Upper(Strip(raw)))

\* "match = ...; if not match: ...": the first attempt that matches
QldFirstHit(m, other) == IF m.hit THEN m ELSE other

\* lines 57-61: the first adjacent pair of parts that matches _LOTPLAN_WITH_SPACES
RECURSIVE qld_pairwise(_, _)
qld_pairwise(parts, idx) ==
    IF idx + 1 > Len(parts) THEN QldNoMatch
    ELSE QldFirstHit(QLD_LOTPLAN_WITH_SPACES(parts[idx] \o <<" ">> \o parts[idx + 1]),
                     qld_pairwise(parts, idx + 1))

\* lines 72-80: the first plan-shaped part that a lot-shaped part precedes
RECURSIVE qld_fallback(_, _)
qld_fallback(parts, idx) ==
    LET \* pm is the match of _PLAN_ONLY on the part at idx
        At(pm) ==
            IF pm.hit /\ idx > 1 /\ parts[idx - 1] # <<>> /\ QldLotToken(parts[idx - 1])
            THEN QldMatch(Upper(parts[idx - 1]), Upper(pm.prefix), pm.number)
            ELSE QldNoMatch
    IN  IF idx > Len(parts) THEN QldNoMatch
        ELSE QldFirstHit(At(QLD_PLAN_ONLY(parts[idx])), qld_fallback(parts, idx + 1))

\* _parse_lotplan_fragment: Ok(lotplan, lot, None, plan), or not ok where it returns
\* None and parse_qld raises
qld_parse_lotplan_fragment(fragment) ==
    LET Expected ==
            Raise("Expected formats like '1RP912949', '1 RP 912949', or 'Lot 1 on RP912949'")
        \* lines 83-88
        LotPlan(lot, plan) == Ok(lot \o plan, lot, NoneVal, plan)
        Return(m) ==
            IF ~m.hit THEN Expected ELSE LotPlan(Upper(m.lot), Upper(m.prefix) \o m.number)
        \* lines 52-81: the attempts on the parts of the normalised text
        MatchParts(parts) ==
            QldFirstHit(IF Len(parts) >= 2 THEN qld_pairwise(parts, 1) ELSE QldNoMatch,
                QldFirstHit(IF Len(parts) >= 3
                            THEN QLD_LOTPLAN_WITH_SPACES(parts[1] \o <<" ">>
                                                         \o Join(Tail(parts), <<" ">>))
                            ELSE QldNoMatch,
                            qld_fallback(parts, 1)))
        \* lines 47-81: the attempts, in the order of the code
        Match(normalised) ==
            QldFirstHit(QLD_LOTPLAN_WITH_SPACES(normalised),
                QldFirstHit(QLD_LOTPLAN_COMPACT(RemoveChars(normalised, {" "})),
                            MatchParts(SplitKeep(normalised, {" "}))))
        Normalised(normalised) ==
            IF normalised = <<>> THEN Expected ELSE Return(Match(normalised))
    IN  Normalised(qld_normalise_token(fragment))

\* a separator of re.split(r",|\band\b|&", line, flags=re.IGNORECASE) at i: its
\* length, 0 when there is none
qld_separator_at(line, i) ==
    IF line[i] \in {",", "&"} THEN 1
    ELSE IF /\ StartsAt(Upper(line), i, <<"A", "N", "D">>)
            /\ WordBoundary(line, i) /\ WordBoundary(line, i + 3)
    THEN 3
    ELSE 0

\* re.split(r",|\band\b|&", line, flags=re.IGNORECASE)
qld_split_parts(line) ==
    LET \* a character joins the piece that is open
        Grow(c, rest) == << <<c>> \o rest[1] >> \o Tail(rest)
        \* F[i]: the pieces of line[i..], the first of them being still open
        F[i \in 1..(Len(line) + 1)] ==
            IF i > Len(line) THEN << <<>> >>
            ELSE IF qld_separator_at(line, i) = 1 THEN << <<>> >> \o F[i + 1]
            ELSE IF qld_separator_at(line, i) = 3 THEN << <<>> >> \o F[i + 3]
            ELSE Grow(line[i], F[i + 1])
    IN  F[1]

\* "parts if parts else [line]"
OrLine(parts, line) == IF parts # <<>> THEN parts ELSE <<line>>

\* one line of _split_input: the fragments it contributes
qld_line_fragments(line) == OrLine(StrippedNonEmpty(qld_split_parts(line)), line)

RECURSIVE qld_lines_fragments(_)
qld_lines_fragments(lines) ==
    IF lines = <<>> THEN <<>>
    ELSE qld_line_fragments(Head(lines)) \o qld_lines_fragments(Tail(lines))

\* _split_input
qld_split_input(text) ==
    qld_lines_fragments(StrippedNonEmpty(Tokens(text, {"\n", ";"})))

\* qld_step with a fragment that fails skipped
qld_step_skips_failures(acc, fragment, r) ==
    IF ~r.ok THEN acc
    ELSE IF r.id \in acc.seen THEN acc
    ELSE [acc EXCEPT !.seen = @ \cup {r.id},
                     !.valid = @ \o <<ParsedParcel(r.id, "QLD", fragment, r.lot,
                                         NoneVal, r.plan, NoneVal, NoneVal)>>]

\* qld_step without the check of seen
qld_step_keeps_duplicates(acc, fragment, r) ==
    IF ~r.ok
    THEN [acc EXCEPT !.malformed = @ \o <<MalformedEntry(fragment, r.err)>>]
    ELSE [acc EXCEPT !.seen = @ \cup {r.id},
                     !.valid = @ \o <<ParsedParcel(r.id, "QLD", fragment, r.lot,
                                         NoneVal, r.plan, NoneVal, NoneVal)>>]

\* the body of the loop of parse_qld for one fragment, r is what
\* _parse_lotplan_fragment gave: the lists and the seen set after it
qld_step(acc, fragment, r) ==
    IF ~r.ok
    THEN [acc EXCEPT !.malformed = @ \o <<MalformedEntry(fragment, r.err)>>]
    ELSE IF r.id \in acc.seen THEN acc
    ELSE [acc EXCEPT !.seen = @ \cup {r.id},
                     !.valid = @ \o <<ParsedParcel(r.id, "QLD", fragment, r.lot,
                                         NoneVal, r.plan, NoneVal, NoneVal)>>]

\* parse_qld: the loop, carrying valid, malformed and seen
RECURSIVE qld_parse_fragments(_, _)
qld_parse_fragments(fragments, acc) ==
    IF fragments = <<>> THEN acc
    ELSE qld_parse_fragments(Tail(fragments),
            qld_step(acc, Head(fragments), qld_parse_lotplan_fragment(Head(fragments))))

Lists(acc) == Appends(acc.valid, acc.malformed)

parse_qld(text) ==
    Lists(qld_parse_fragments(qld_split_input(text),
                              [valid |-> <<>>, malformed |-> <<>>, seen |-> {}]))

(***************************************************************************)
(* parsers/vic.py                                                          *)
(***************************************************************************)
\* _PLAN_PATTERN  ^[A-Z]{1,4}\d+[A-Z0-9]*$
VIC_PLAN_PATTERN(s) ==
    LET np == RunLen(s, 1, UpperLetters)
    IN  /\ np >= 1 /\ np <= 4
        /\ np + 1 <= Len(s) /\ s[np + 1] \in Digits
        /\ AllIn(s, UpperAlnum)

\* _LOT_PATTERN  ^[A-Z0-9]+$
VIC_LOT_PATTERN(s) == s # <<>> /\ AllIn(s, UpperAlnum)

\* _canonical_spi
vic_canonical_spi(lot, plan) ==
    LET lot_clean == Upper(Strip(lot))
        plan_clean == Upper(Strip(plan))
    IN  IF lot_clean = <<>> \/ ~VIC_LOT_PATTERN(lot_clean) THEN Raise("Invalid lot component")
        ELSE IF plan_clean = <<>> \/ ~VIC_PLAN_PATTERN(plan_clean)
        THEN Raise("Invalid plan component")
        ELSE Ok(lot_clean \o <<"\\">> \o plan_clean, lot_clean, NoneVal, plan_clean)

\* lines 32-38: index of the rightmost plan-shaped token, 0 when there is none
RECURSIVE vic_plan_index(_, _)
vic_plan_index(tokens, idx) ==
    IF idx < 1 THEN 0
    ELSE IF VIC_PLAN_PATTERN(tokens[idx]) THEN idx
    ELSE vic_plan_index(tokens, idx - 1)

\* _normalise_spi
vic_normalise_spi(value) ==
    LET cleaned == Upper(Strip(value))
        cut == RunLen(cleaned, 1, {c \in {cleaned[i] : i \in 1..Len(cleaned)} : c # "\\"})
        spaced == Strip(RunsToSpace(
                      SubWord(RunsToSpace(ReplaceChar(cleaned, "/", " "), {",", ";"}),
                              S_LOT, <<" ">>),
                      Whitespace))
        tokens == SplitKeep(spaced, {" "})
        plan_index == vic_plan_index(tokens, Len(tokens))
        lot_candidates ==
            DropMembers(SubSeq(tokens, 1, plan_index - 1)
                        \o SubSeq(tokens, plan_index + 1, Len(tokens)), {<<>>})
    IN  IF cleaned = <<>> THEN Raise("Empty VIC parcel identifier")
        ELSE IF cut < Len(cleaned)
        THEN vic_canonical_spi(Strip(SubSeq(cleaned, 1, cut)),
                               Strip(SubSeq(cleaned, cut + 2, Len(cleaned))))
        ELSE IF spaced = <<>> THEN Raise("Invalid VIC parcel identifier")
        ELSE IF plan_index = 0 THEN Raise("Missing plan component (e.g. PS433970)")
        ELSE IF lot_candidates = <<>> THEN Raise("Missing lot component")
        ELSE IF ~VIC_LOT_PATTERN(lot_candidates[1]) THEN Raise("Invalid lot component")
        ELSE vic_canonical_spi(lot_candidates[1], tokens[plan_index])

\* normalize_vic_spi
normalize_vic_spi(raw) == vic_normalise_spi(raw)

\* parse_vic
RECURSIVE vic_parse_lines(_)
vic_parse_lines(lines) ==
    IF lines = <<>> THEN [valid |-> <<>>, malformed |-> <<>>]
    ELSE LET line == Head(lines)
             r == vic_normalise_spi(line)
             t == vic_parse_lines(Tail(lines))
         IN  IF r.ok
             THEN [valid |-> <<ParsedParcel(r.id, "VIC", line, r.lot, NoneVal, r.plan,
                                            NoneVal, NoneVal)>> \o t.valid,
                   malformed |-> t.malformed]
             ELSE [valid |-> t.valid,
                   malformed |-> <<MalformedEntry(line, r.err)>> \o t.malformed]

parse_vic(text) == vic_parse_lines(StrippedNonEmpty(SplitKeep(text, {"\n"})))

(***************************************************************************)
(* parsers/sa.py                                                           *)
(***************************************************************************)
\* _TITLE_REF_PATTERN  ^[A-Z]{1,3}\d{1,6}/\d{1,6}$
\* nl letters, nv digits, a slash, nf digits
SA_TITLE_REF_PATTERN(s) ==
    LET Groups(nl, nv, nf) ==
            /\ nl >= 1 /\ nl <= 3 /\ nv >= 1 /\ nv <= 6
            /\ nl + nv + 1 <= Len(s) /\ s[nl + nv + 1] = "/"
            /\ nf >= 1 /\ nf <= 6 /\ nl + nv + 1 + nf = Len(s)
        Folio(nl, nv) == Groups(nl, nv, RunLen(s, nl + nv + 2, Digits))
        Volume(nl) == Folio(nl, RunLen(s, nl + 1, Digits))
    IN  Volume(RunLen(s, 1, UpperLetters))

\* _PLAN_PATTERN  ^[A-Z]+\d+[A-Z0-9]*$
SA_PLAN_PATTERN(s) ==
    LET Plan(nl) == nl >= 1 /\ nl + 1 <= Len(s) /\ s[nl + 1] \in Digits /\ AllIn(s, UpperAlnum)
    IN  Plan(RunLen(s, 1, UpperLetters))

\* _LOT_PATTERN  ^[A-Z0-9]+$
SA_LOT_PATTERN(s) == s # <<>> /\ AllIn(s, UpperAlnum)

\* _DCDB_PATTERN  ^(?P<plan>[A-Z]+[0-9A-Z]*\d)(?P<lot>[A-Z]+[0-9A-Z]*\d)$
\* the greedy plan group ends at the last digit that a letter follows:
\* <<plan, lot>>, or <<>> when the pattern does not match
SA_DCDB_PATTERN(s) ==
    LET Split(cuts) ==
            IF /\ Len(s) >= 1 /\ AllIn(s, UpperAlnum)
               /\ s[1] \in UpperLetters /\ s[Len(s)] \in Digits /\ cuts # {}
            THEN <<SubSeq(s, 1, CHOOSE k \in cuts : \A o \in cuts : o <= k),
                   SubSeq(s, (CHOOSE k \in cuts : \A o \in cuts : o <= k) + 1, Len(s))>>
            ELSE <<>>
    IN  Split({j \in 1..(Len(s) - 1) : s[j] \in Digits /\ s[j + 1] \in UpperLetters})

SA_NOISE_WORDS ==
    {S_LOT, S_LOTS, S_PLAN, <<"P", "A", "R", "C", "E", "L">>, <<"O", "N">>, <<"O", "F">>,
     <<"T", "H", "E">>, S_SEC, S_SECTION, <<"A", "L", "L", "O", "T", "M", "E", "N", "T">>,
     <<"A", "L", "L", "O", "T">>, <<"U", "N", "I", "T">>, <<"S", "T", "A", "G", "E">>,
     <<"P", "T">>, <<"P", "A", "R", "T">>, <<"H", "U", "N", "D", "R", "E", "D">>,
     <<"H", "D">>, <<"D", "P">>, <<"I", "D">>}

\* str.splitlines() followed by the strip and the skip of empty lines:
\* the non-empty stripped lines
sa_lines(text) == StrippedNonEmpty(Tokens(text, {"\n", "\r"}))

\* one line of _split_input
sa_line_fragments(line) == OrLine(StrippedNonEmpty(Tokens(line, {";", ","})), line)

RECURSIVE sa_lines_fragments(_)
sa_lines_fragments(lines) ==
    IF lines = <<>> THEN <<>>
    ELSE sa_line_fragments(Head(lines)) \o sa_lines_fragments(Tail(lines))

\* _split_input
sa_split_input(text) == sa_lines_fragments(sa_lines(text))

\* lines 52-53: every whole word that is a noise word becomes a space
sa_drop_noise(s) ==
    LET Word(w) == IF w \in SA_NOISE_WORDS THEN <<" ">> ELSE w
        \* N[i]: length of the word that starts at i, 0 when none starts there
        N[i \in 1..Len(s)] == IF WordBoundary(s, i) THEN RunLen(s, i, WordChars) ELSE 0
        F[i \in 1..(Len(s) + 1)] ==
            IF i > Len(s) THEN <<>>
            ELSE IF N[i] >= 1 THEN Word(SubSeq(s, i, i + N[i] - 1)) \o F[i + N[i]]
            ELSE <<s[i]>> \o F[i + 1]
    IN  F[1]

\* lines 49-54 of _tokenise_sa: text
sa_text(raw) ==
    Strip(RunsToSpace(sa_drop_noise(RunsToSpace(RunsToSpace(Upper(raw), {"-", "_", "/"}),
                                                {",", ".", ";"})),
                      Whitespace))

\* sum(ch.isdigit() for ch in t)
DigitCount(t) == Cardinality({i \in 1..Len(t) : t[i] \in Digits})

\* tuple comparison a < b for pairs
PairLess(a, b) == a[1] < b[1] \/ (a[1] = b[1] /\ a[2] < b[2])

\* max(xs, key=...) over the keys ks of xs: index of the first maximal key
FirstMaxKey(ks) ==
    CHOOSE i \in 1..Len(ks) :
        /\ \A j \in 1..Len(ks) : ~PairLess(ks[i], ks[j])
        /\ \A j \in 1..(i - 1) : PairLess(ks[j], ks[i])

\* the sort keys of _extract_plan_lot: (len(t), digits) and (digits, len(t))
sa_key_len_digits(xs) == [i \in 1..Len(xs) |-> <<Len(xs[i]), DigitCount(xs[i])>>]

sa_key_digits_len(xs) == [i \in 1..Len(xs) |-> <<DigitCount(xs[i]), Len(xs[i])>>]

\* sorted(tokens, key=lambda t: (len(t), digits), reverse=True): the sort is stable,
\* tokens of equal key keep their order
RECURSIVE sa_sorted_tokens(_)
sa_sorted_tokens(xs) ==
    LET From(i) == <<xs[i]>> \o sa_sorted_tokens(SubSeq(xs, 1, i - 1) \o SubSeq(xs, i + 1, Len(xs)))
    IN  IF xs = <<>> THEN <<>> ELSE From(FirstMaxKey(sa_key_len_digits(xs)))

\* re.findall(r"[A-Z]+\d+", s)
sa_segments(s) ==
    LET \* L[i]: the letters from i, D[i]: the digits after them
        L[i \in 1..Len(s)] == RunLen(s, i, UpperLetters)
        D[i \in 1..Len(s)] == RunLen(s, i + L[i], Digits)
        F[i \in 1..(Len(s) + 1)] ==
            IF i > Len(s) THEN <<>>
            ELSE IF L[i] >= 1 /\ D[i] >= 1
            THEN <<SubSeq(s, i, i + L[i] + D[i] - 1)>> \o F[i + L[i] + D[i]]
            ELSE F[i + 1]
    IN  F[1]

\* _extract_plan_lot: [ok, plan, lot, err]
sa_extract_plan_lot(raw) ==
    LET \* plan and lot as the function holds them
        Pair(plan, lot) == [plan |-> plan, lot |-> lot]
        HasBoth(pl) == pl.plan # NoneVal /\ pl.lot # NoneVal
        \* lines 77-79
        PickLot(plan, remaining_lots) ==
            Pair(plan, IF remaining_lots # <<>>
                       THEN remaining_lots[FirstMaxKey(sa_key_digits_len(remaining_lots))]
                       ELSE NoneVal)
        \* lines 72-79
        Candidates(plan_candidates, lot_candidates) ==
            IF plan_candidates # <<>> /\ lot_candidates # <<>>
            THEN PickLot(plan_candidates[FirstMaxKey(sa_key_len_digits(plan_candidates))],
                         DropMembers(lot_candidates,
                             {plan_candidates[FirstMaxKey(sa_key_len_digits(plan_candidates))]}))
            ELSE Pair(NoneVal, NoneVal)
        \* lines 81-84
        FromSorted(sorted_tokens) == Pair(sorted_tokens[1], sorted_tokens[2])
        \* lines 86-89
        FromSegments(pl, segments) ==
            IF Len(segments) >= 2 THEN Pair(segments[1], segments[2]) ELSE pl
        \* lines 85-89
        Resegment(tokens, pl) ==
            IF ~HasBoth(pl) /\ Len(tokens) = 1 THEN FromSegments(pl, sa_segments(tokens[1]))
            ELSE pl
        \* lines 80-89
        Resort(tokens, pl) ==
            Resegment(tokens,
                      IF ~HasBoth(pl) /\ Len(tokens) >= 2
                      THEN FromSorted(sa_sorted_tokens(tokens))
                      ELSE pl)
        \* lines 65-89: m is the match of _DCDB_PATTERN on compact
        PlanLot(tokens, m) ==
            IF m # <<>> THEN Pair(m[1], m[2])
            ELSE Resort(tokens, Candidates(SelectSeq(tokens, SA_PLAN_PATTERN),
                                           SelectSeq(tokens, SA_LOT_PATTERN)))
        \* lines 94-98
        Ordered(plan, lot) ==
            IF Len(plan) < Len(lot)
            THEN [ok |-> TRUE, plan |-> lot, lot |-> plan, err |-> ""]
            ELSE [ok |-> TRUE, plan |-> plan, lot |-> lot, err |-> ""]
        \* lines 91-98
        Checked(pl) ==
            IF pl.plan = NoneVal \/ pl.plan = <<>> \/ pl.lot = NoneVal \/ pl.lot = <<>>
            THEN [ok |-> FALSE, plan |-> NoneVal, lot |-> NoneVal,
                  err |-> "Invalid SA plan/lot combination"]
            ELSE Ordered(Strip(pl.plan), Strip(pl.lot))
        \* lines 61-98: text is what _tokenise_sa made of raw
        Extract(text) ==
            IF RemoveChars(text, {" "}) = <<>>
            THEN [ok |-> FALSE, plan |-> NoneVal, lot |-> NoneVal,
                  err |-> "Invalid SA identifier"]
            ELSE Checked(PlanLot(Tokens(text, {" "}),
                                 SA_DCDB_PATTERN(RemoveChars(text, {" "}))))
    IN  Extract(sa_text(raw))

\* _normalise_title_ref: [ok, cleaned, volume, folio]
sa_normalise_title_ref(raw) ==
    LET Parts(cleaned, parts) ==
            IF ~SA_TITLE_REF_PATTERN(cleaned)
            THEN [ok |-> FALSE, cleaned |-> NoneVal, volume |-> NoneVal, folio |-> NoneVal]
            ELSE [ok |-> TRUE, cleaned |-> cleaned, volume |-> parts[1], folio |-> parts[2]]
        Cleaned(cleaned) == Parts(cleaned, SplitKeep(cleaned, {"/"}))
    IN  Cleaned(Strip(RemoveChars(Upper(raw), {" "})))

\* _normalise_dcdb_id: [ok, canonical, plan, lot, err]
sa_normalise_dcdb_id(raw) ==
    LET Canonical(r) ==
            [ok |-> r.ok, canonical |-> IF r.ok THEN r.plan \o r.lot ELSE NoneVal,
             plan |-> r.plan, lot |-> r.lot, err |-> r.err]
    IN  Canonical(sa_extract_plan_lot(raw))

S_SA_TITLE == <<"S", "A", ":", "T", "I", "T", "L", "E", ":">>

S_SA_DCDB == <<"S", "A", ":", "D", "C", "D", "B", ":">>

\* sa_normalise_fragment where the DCDB reading is tried before the title reading
sa_normalise_fragment_dcdb_first(fragment) ==
    LET Title(t, d) ==
            IF t.ok
            THEN [ok |-> TRUE, scheme |-> "title", id |-> S_SA_TITLE \o t.cleaned,
                  lot |-> NoneVal, plan |-> NoneVal, volume |-> t.volume, folio |-> t.folio,
                  err |-> ""]
            ELSE [ok |-> FALSE, scheme |-> "none", id |-> NoneVal, lot |-> NoneVal,
                  plan |-> NoneVal, volume |-> NoneVal, folio |-> NoneVal, err |-> d.err]
        Dcdb(d) ==
            IF d.ok
            THEN [ok |-> TRUE, scheme |-> "dcdb", id |-> S_SA_DCDB \o d.canonical,
                  lot |-> d.lot, plan |-> d.plan, volume |-> NoneVal, folio |-> NoneVal,
                  err |-> ""]
            ELSE Title(sa_normalise_title_ref(fragment), d)
    IN  Dcdb(sa_normalise_dcdb_id(fragment))

\* lines 132-165 of parse_sa: what one fragment normalizes to, before the seen check;
\* scheme is "title" or "dcdb"
sa_normalise_fragment(fragment) ==
    LET \* lines 152-165
        Dcdb(d) ==
            IF d.ok
            THEN [ok |-> TRUE, scheme |-> "dcdb", id |-> S_SA_DCDB \o d.canonical,
                  lot |-> d.lot, plan |-> d.plan, volume |-> NoneVal, folio |-> NoneVal,
                  err |-> ""]
            ELSE [ok |-> FALSE, scheme |-> "none", id |-> NoneVal, lot |-> NoneVal,
                  plan |-> NoneVal, volume |-> NoneVal, folio |-> NoneVal, err |-> d.err]
        \* lines 133-150
        Title(t) ==
            IF t.ok
            THEN [ok |-> TRUE, scheme |-> "title", id |-> S_SA_TITLE \o t.cleaned,
                  lot |-> NoneVal, plan |-> NoneVal, volume |-> t.volume, folio |-> t.folio,
                  err |-> ""]
            ELSE Dcdb(sa_normalise_dcdb_id(fragment))
    IN  Title(sa_normalise_title_ref(fragment))

\* sa_step with insert(0, ...) in the place of append
sa_step_prepends(acc, fragment, r) ==
    IF ~r.ok
    THEN [acc EXCEPT !.malformed = <<MalformedEntry(fragment, r.err)>> \o @]
    ELSE IF r.id \in acc.seen THEN acc
    ELSE [acc EXCEPT !.seen = @ \cup {r.id},
                     !.valid = <<ParsedParcel(r.id, "SA", fragment, r.lot,
                                     NoneVal, r.plan, r.volume, r.folio)>> \o @]

\* the body of the loop of parse_sa for one fragment, r is what the fragment
\* normalizes to: the lists and the seen set after it
sa_step(acc, fragment, r) ==
    IF ~r.ok
    THEN [acc EXCEPT !.malformed = @ \o <<MalformedEntry(fragment, r.err)>>]
    ELSE IF r.id \in acc.seen THEN acc
    ELSE [acc EXCEPT !.seen = @ \cup {r.id},
                     !.valid = @ \o <<ParsedParcel(r.id, "SA", fragment, r.lot,
                                         NoneVal, r.plan, r.volume, r.folio)>>]

\* parse_sa: the loop, carrying valid, malformed and seen
RECURSIVE sa_parse_fragments(_, _)
sa_parse_fragments(fragments, acc) ==
    IF fragments = <<>> THEN acc
    ELSE sa_parse_fragments(Tail(fragments),
            sa_step(acc, Head(fragments), sa_normalise_fragment(Head(fragments))))

parse_sa(text) ==
    Lists(sa_parse_fragments(sa_split_input(text),
                             [valid |-> <<>>, malformed |-> <<>>, seen |-> {}]))

(***************************************************************************)
(* The raw texts of the model                                              *)
(***************************************************************************)
\* longest raw text, in pieces, that Init builds
MaxPieces == 3

States == {"NSW", "QLD", "SA", "VIC"}

\* pieces the NSW raw texts are built from
NswPieces ==
    {<<"1">>,
     <<"-", "3">>,
     <<"/", "/", "D", "P", "1">>,
     <<" ", "D", "P", "1">>,
     <<"L", "O", "T", " ">>,
     <<"\n">>,
     <<"/", "2">>,
     <<"x">>}

\* NSW raw texts of the tests and of the documentation
NswCorpus ==
    {<<"1", "/", "/", "D", "P", "1", "3", "1", "1", "1", "8", "\n", "2", "/", "/", "D", "P", "1", "3", "1", "1", "1", "8">>,
     <<"L", "O", "T", " ", "1", "3", " ", "D", "P", "1", "2", "4", "2", "6", "2", "4">>,
     <<"L", "O", "T", " ", "1", " ", "D", "P", "1", "3", "1", "1", "1", "8">>,
     <<"1", "0", "1", "/", "1", "/", "/", "D", "P", "1", "2", "3", "4", "5">>,
     <<"1", "-", "3", "/", "/", "D", "P", "1", "3", "1", "1", "1", "8">>,
     <<"i", "n", "v", "a", "l", "i", "d", "_", "f", "o", "r", "m", "a", "t", "\n", "1", "2", "3", "I", "N", "V", "A", "L", "I", "D">>,
     <<"1", "-", "2", "0", "0", "/", "/", "D", "P", "1", "3", "1", "1", "1", "8">>,
     <<"1", "-", "2", "0", "1", "/", "/", "D", "P", "1">>,
     <<"1", "-", "2", "0", "2", "/", "/", "D", "P", "1">>,
     <<"1", "-", "2", "5", "0", "/", "/", "D", "P", "1">>,
     <<"1", "/", "/", "D", "P", "1", "3", "1", "1", "1", "8", "\n", "i", "n", "v", "a", "l", "i", "d", "_", "e", "n", "t", "r", "y", "\n", "L", "O", "T", " ", "1", "3", " ", "D", "P", "1", "2", "4", "2", "6", "2", "4", "\n", "a", "n", "o", "t", "h", "e", "r", "_", "i", "n", "v", "a", "l", "i", "d">>,
     <<"1", "/", "/", "D", "P", "1", "3", "1", "1", "1", "8", "\n", "b", "a", "d", "-", "e", "n", "t", "r", "y", "\n", "2", "-", "3", "/", "/", "D", "P", "1", "3", "1", "1", "1", "8">>,
     <<"L", "O", "T", " ", "1", "3", " ", "S", "E", "C", " ", "2", " ", "D", "P", "1", "2", "4", "2", "6", "2", "4">>,
     <<"L", "O", "T", " ", "A", " ", "D", "P", "1">>,
     <<"1", " ", "D", "P", " ", "3", "0", "4", "9", "3">>,
     <<"3", "-", "1", "/", "/", "D", "P", "1">>,
     <<"0", "1", "-", "0", "3", "/", "/", "d", "p", " ", "7">>,
     <<"1", "-", "3", "/", "/", "7", "7">>}

\* pieces the QLD raw texts are built from
QldPieces ==
    {<<"1">>,
     <<"R", "P", "1", "2">>,
     <<" ", "R", "P", " ", "1", "2">>,
     <<" ">>,
     <<"L", "o", "t", " ">>,
     <<" ", "o", "n", " ">>,
     <<" ", "a", "n", "d", " ">>,
     <<"\n">>}

\* QLD raw texts of the documentation
QldCorpus ==
    {<<"1", "R", "P", "9", "1", "2", "9", "4", "9">>,
     <<"1", " ", "R", "P", " ", "9", "1", "2", "9", "4", "9">>,
     <<"L", "o", "t", " ", "1", " ", "o", "n", " ", "R", "P", "9", "1", "2", "9", "4", "9">>,
     <<"1", "R", "P", "9", "1", "2", "9", "4", "9", " ", "a", "n", "d", " ", "2", "R", "P", "9", "1", "2", "9", "4", "9">>,
     <<"1", "R", "P", "9", "1", "2", "9", "4", "9", ",", " ", "1", " ", "R", "P", " ", "9", "1", "2", "9", "4", "9", ";", " ", "L", "o", "t", " ", "1", " ", "o", "n", " ", "R", "P", "9", "1", "2", "9", "4", "9">>,
     <<"1", " ", "A", "B", "C", "D", " ", "1", "2", "3", "\n", "1", "A", "B", "C", "D", "1", "2", "3">>,
     <<"R", "P", "9", "1", "2", "9", "4", "9">>,
     <<"1", " ", "N", "O", " ", "1", "2">>,
     <<"1", "N", "O", "1", "2", "\n", "L", "o", "t", " ", "2", "A", " ", "o", "n", " ", "N", "O", "1", "2">>}

\* pieces the SA raw texts are built from
SaPieces ==
    {<<"C", "T", "1", "/", "2">>,
     <<"D", "1">>,
     <<"A", "2">>,
     <<" ">>,
     <<"7">>,
     <<"\n">>,
     <<",">>,
     <<" ", "a", "n", "d", " ">>}

\* SA raw texts of the documentation
SaCorpus ==
    {<<"C", "T", "6", "2", "0", "4", "/", "8", "3", "1">>,
     <<"D", "1", "1", "7", "8", "7", "7", " ", "A", "2", "2">>,
     <<"D", "1", "1", "7", "8", "7", "7", "A", "2", "2">>,
     <<"C", "T", "6", "2", "0", "4", "/", "8", "3", "1", "\n", "c", "t", " ", "6", "2", "0", "4", "/", "8", "3", "1">>,
     <<"D", "1", "2", "3", "4", "5", " ", "7">>,
     <<"L", "o", "t", " ", "7", " ", "D", "1", "2", "3", "4", "5", ",", " ", "C", "T", "6", "2", "0", "4", "/", "8", "3", "1">>,
     <<"S", "A", ":", "T", "I", "T", "L", "E", ":", "C", "T", "6", "2", "0", "4", "/", "8", "3", "1">>,
     <<"S", "A", ":", "D", "C", "D", "B", ":", "D", "1", "1", "7", "8", "7", "7", "A", "2", "2">>}

\* pieces the VIC raw texts are built from
VicPieces ==
    {<<"1">>,
     <<"P", "S", "1", "2">>,
     <<"\\">>,
     <<" ">>,
     <<"L", "O", "T", " ">>,
     <<"\n">>,
     <<"/">>,
     <<"A">>}

\* VIC raw texts of the documentation
VicCorpus ==
    {<<"1", "\\", "P", "S", "4", "3", "3", "9", "7", "0">>,
     <<"1", " ", "P", "S", "4", "3", "3", "9", "7", "0">>,
     <<"L", "O", "T", " ", "1", " ", "P", "S", "4", "3", "3", "9", "7", "0">>,
     <<"1", "/", "P", "S", "4", "3", "3", "9", "7", "0">>,
     <<"1", "\\", "P", "S", "4", "3", "3", "9", "7", "0", "\n", "1", " ", "P", "S", "4", "3", "3", "9", "7", "0">>,
     <<"P", "S", "4", "3", "3", "9", "7", "0">>}

Pieces(st) ==
    CASE st = "NSW" -> NswPieces
      [] st = "QLD" -> QldPieces
      [] st = "SA" -> SaPieces
      [] st = "VIC" -> VicPieces

Corpus(st) ==
    CASE st = "NSW" -> NswCorpus
      [] st = "QLD" -> QldCorpus
      [] st = "SA" -> SaCorpus
      [] st = "VIC" -> VicCorpus

RECURSIVE Flatten(_)
Flatten(xs) == IF xs = <<>> THEN <<>> ELSE Head(xs) \o Flatten(Tail(xs))

RawTexts(st) ==
    Corpus(st) \cup {Flatten(ps) : ps \in UNION {[1..n -> Pieces(st)] : n \in 1..MaxPieces}}

(***************************************************************************)
(* parsers/__init__.py                                                     *)
(***************************************************************************)
\* parse_parcel_input
parse_parcel_input(st, text) ==
    CASE st = "NSW" -> parse_nsw(text)
      [] st = "QLD" -> parse_qld(text)
      [] st = "SA" -> parse_sa(text)
      [] st = "VIC" -> parse_vic(text)

\* the fragments the parser of the state splits a raw text into
Fragments(st, text) ==
    CASE st = "NSW" -> nsw_lines(text)
      [] st = "QLD" -> qld_split_input(text)
      [] st = "SA" -> sa_split_input(text)
      [] st = "VIC" -> StrippedNonEmpty(SplitKeep(text, {"\n"}))

\* the normalizer the parser of the state applies to one fragment: [ok, id]
Normalize(st, fragment) ==
    CASE st = "NSW" -> normalize_nsw_identifier(fragment)
      [] st = "QLD" -> qld_parse_lotplan_fragment(fragment)
      [] st = "SA" -> sa_normalise_fragment(fragment)
      [] st = "VIC" -> normalize_vic_spi(fragment)

(***************************************************************************)
(* arcgis.py                                                               *)
(*                                                                         *)
(* A dict is a function from its keys (strings) to its values; a value is  *)
(* a str (a sequence of characters) or None.  A GeoJSON feature of a       *)
(* response is [geometry, properties], its geometry the sequence of the    *)
(* characters of the geometry type, or None.                               *)
(***************************************************************************)
\* the characters of the model in code point order
CodePoints ==
    <<"\t", "\n", "\r", " ", "&", "'", ",", "-", ".", "/">> \o DigitSeq
    \o <<":", ";", "<", ">">> \o UpperSeq \o <<"\\", "_">> \o LowerSeq

Ord(c) == CHOOSE k \in 1..Len(CodePoints) : CodePoints[k] = c

\* a < b for two str
StrLess(a, b) ==
    \E k \in 1..Len(b) :
        /\ k <= Len(a) + 1
        /\ SubSeq(a, 1, k - 1) = SubSeq(b, 1, k - 1)
        /\ (k = Len(a) + 1 \/ Ord(a[k]) < Ord(b[k]))

\* sorted(S) for a set of str
RECURSIVE Sorted(_)
Sorted(S) ==
    LET From(m) == <<m>> \o Sorted(S \ {m})
    IN  IF S = {} THEN <<>>
        ELSE From(CHOOSE x \in S : \A y \in S : x = y \/ StrLess(x, y))

\* the set of the elements of a list
Range(xs) == {xs[k] : k \in 1..Len(xs)}

\* value.replace("'", "''")
RECURSIVE Escape(_)
Escape(s) ==
    IF s = <<>> THEN <<>>
    ELSE IF Head(s) = "'" THEN <<"'", "'">> \o Escape(Tail(s))
    ELSE <<Head(s)>> \o Escape(Tail(s))

\* Quoted where the value is embedded as it is
Quoted_unescaped(s) == <<"'">> \o s \o <<"'">>

\* f"'{escaped_id}'"
Quoted(s) == <<"'">> \o Escape(s) \o <<"'">>

\* str(value)
PyStr(value) == IF value = NoneVal THEN <<"N", "o", "n", "e">> ELSE value

\* state.value
StateValue(st) ==
    CASE st = "NSW" -> <<"N", "S", "W">>
      [] st = "QLD" -> <<"Q", "L", "D">>
      [] st = "SA" -> <<"S", "A">>
      [] st = "VIC" -> <<"V", "I", "C">>

\* STATE_FIELD_MAPPINGS[state]['id_field']
id_field(st) ==
    CASE st = "NSW" -> "lotidstring"
      [] st = "QLD" -> "lotplan"
      [] st = "SA" -> "parcel_id"
      [] st = "VIC" -> "PARCEL_SPI"

\* STATE_FIELD_MAPPINGS[state]['name_field']
name_field(st) ==
    CASE st = "NSW" -> "lotidstring"
      [] st = "QLD" -> "addr_legal"
      [] st = "SA" -> "parcel_id"
      [] st = "VIC" -> "PARCEL_SPI"

\* _SA_TITLE_REF_PATTERN of arcgis.py, the pattern of parsers/sa.py
ARCGIS_SA_TITLE_REF_PATTERN(s) == SA_TITLE_REF_PATTERN(s)

\* _SA_PLAN_PARCEL_PATTERN  ^[A-Z]+\d+[A-Z0-9]*\s+[A-Z0-9]+$
\* np characters of plan, nw blanks, nl characters of lot
ARCGIS_SA_PLAN_PARCEL_PATTERN(s) ==
    LET Groups(np, nw, nl) ==
            /\ np >= 1 /\ SA_PLAN_PATTERN(SubSeq(s, 1, np))
            /\ nw >= 1 /\ nl >= 1 /\ np + nw + nl = Len(s)
        Lot(np, nw) == Groups(np, nw, RunLen(s, np + nw + 1, UpperAlnum))
        Blanks(np) == Lot(np, RunLen(s, np + 1, Whitespace))
    IN  Blanks(RunLen(s, 1, UpperAlnum))

\* _SA_DCDB_PATTERN of arcgis.py  ^(?P<plan>[A-Z]+\d+)(?P<lot>[A-Z]+\d+)$
\* <<plan, lot>>, or <<>> when the pattern does not match
ARCGIS_SA_DCDB_PATTERN(s) ==
    LET Groups(n1, n2, n3, n4) ==
            IF n1 >= 1 /\ n2 >= 1 /\ n3 >= 1 /\ n4 >= 1 /\ n1 + n2 + n3 + n4 = Len(s)
            THEN <<SubSeq(s, 1, n1 + n2), SubSeq(s, n1 + n2 + 1, Len(s))>>
            ELSE <<>>
        LotDigits(n1, n2, n3) == Groups(n1, n2, n3, RunLen(s, n1 + n2 + n3 + 1, Digits))
        LotLetters(n1, n2) == LotDigits(n1, n2, RunLen(s, n1 + n2 + 1, UpperLetters))
        PlanDigits(n1) == LotLetters(n1, RunLen(s, n1 + 1, Digits))
    IN  PlanDigits(RunLen(s, 1, UpperLetters))

\* dict.get(key, default)
Get(d, key, default) == IF key \in DOMAIN d THEN d[key] ELSE default

\* d[key] = value
Put(d, key, value) == (key :> value) @@ d

\* d.setdefault(key, value)
SetDefault(d, key, value) == d @@ (key :> value)

\* isinstance(value, str) and value.strip()
NonBlankStr(value) == value # NoneVal /\ Strip(value) # <<>>

\* a value that is not None, empty or zero
Truthy(value) == value # NoneVal /\ value # <<>>

\* lines 445-471: the NSW branch of _process_feature, [feature_id, name, properties]
process_nsw(properties, feature_id, name) ==
    LET Lot(r, p) == IF Truthy(r.lot) THEN Put(p, "lotnumber", r.lot) ELSE p
        Section(r, p) ==
            IF Truthy(r.section)
            THEN Put(Put(p, "sectionnumber", r.section), "section", r.section)
            ELSE p
        Plan(r, p) ==
            Put(IF Truthy(r.plan) THEN Put(p, "planlabel", r.plan) ELSE p, "plan", r.plan)
        Normalised(r) ==
            IF feature_id = NoneVal \/ ~r.ok
            THEN [feature_id |-> feature_id, name |-> name, properties |-> properties]
            ELSE [feature_id |-> r.id, name |-> r.id,
                  properties |->
                      Plan(r, Section(r, Lot(r, Put(Put(properties, "lotidstring", r.id),
                                                    "lotplan", r.id))))]
    IN  Normalised(normalize_nsw_identifier(PyStr(feature_id)))

\* lines 472-505: the SA branch of _process_feature; c is [canonical, properties]
process_sa(properties, feature_id, name) ==
    LET PlanLot(p, plan, lot) == SetDefault(SetDefault(p, "plan", plan), "lot", lot)
        \* lines 478-485
        DcdbMatch(p, dcdb_clean, match) ==
            [canonical |-> dcdb_clean,
             properties |-> IF match # <<>> THEN PlanLot(p, match[1], match[2]) ELSE p]
        DcdbClean(dcdb_clean) ==
            DcdbMatch(Put(properties, "dcdb_id", dcdb_clean), dcdb_clean,
                      ARCGIS_SA_DCDB_PATTERN(dcdb_clean))
        Dcdb(dcdb_value) ==
            IF NonBlankStr(dcdb_value)
            THEN DcdbClean(RemoveChars(Upper(dcdb_value), {" "}))
            ELSE [canonical |-> NoneVal, properties |-> properties]
        \* lines 487-493
        ParcelParts(p, canonical, parts) ==
            [canonical |-> canonical,
             properties |-> IF Len(parts) >= 2 THEN PlanLot(p, parts[1], parts[2]) ELSE p]
        ParcelCanonical(c, canonical) ==
            ParcelParts(Put(c.properties, "parcel_id", canonical), canonical,
                        Tokens(canonical, Whitespace))
        Parcel(c, parcel_id_value) ==
            IF c.canonical = NoneVal /\ NonBlankStr(parcel_id_value)
            THEN ParcelCanonical(c, Join(Tokens(Upper(parcel_id_value), Whitespace), <<" ">>))
            ELSE c
        \* lines 495-499
        TitleNormalised(c, normalised_title) ==
            [canonical |-> normalised_title,
             properties |-> SetDefault(Put(c.properties, "title_ref", normalised_title),
                                       "display_title", normalised_title)]
        Title(c, title_ref_value) ==
            IF c.canonical = NoneVal /\ NonBlankStr(title_ref_value)
            THEN TitleNormalised(c, RemoveChars(Upper(title_ref_value), {" "}))
            ELSE c
        \* lines 501-503
        Canonical(c) ==
            IF Truthy(c.canonical)
            THEN [feature_id |-> c.canonical, name |-> c.canonical, properties |-> c.properties]
            ELSE [feature_id |-> feature_id, name |-> name, properties |-> c.properties]
        ParcelIdValue(value) == IF Truthy(value) THEN value ELSE feature_id
    IN  Canonical(Title(Parcel(Dcdb(Get(properties, "dcdb_id", NoneVal)),
                               ParcelIdValue(Get(properties, "parcel_id", NoneVal))),
                        Get(properties, "title_ref", NoneVal)))

\* lines 507-526: the VIC branch of _process_feature
process_vic(properties, feature_id, name) ==
    LET Normalised(r) ==
            IF feature_id = NoneVal \/ ~r.ok
            THEN [feature_id |-> feature_id, name |-> name, properties |-> properties]
            ELSE [feature_id |-> r.id, name |-> r.id,
                  properties |->
                      Put(Put(Put(Put(Put(Put(properties, "PARCEL_SPI", r.id),
                                              "parcel_spi", r.id),
                                          "lot", r.lot),
                                      "plan", r.plan),
                                  "PARCEL_LOT_NUMBER", r.lot),
                              "PARCEL_PLAN_NUMBER", r.plan)]
    IN  Normalised(normalize_vic_spi(PyStr(feature_id)))

\* lines 528-541: area_ha, a number for a polygon (its value is not modelled)
S_AREA == <<"<", "a", "r", "e", "a", ">">>

area_ha(geometry) ==
    IF geometry \in {<<"P", "o", "l", "y", "g", "o", "n">>,
                     <<"M", "u", "l", "t", "i", "P", "o", "l", "y", "g", "o", "n">>}
    THEN S_AREA
    ELSE NoneVal

\* f"{state} Parcel {feature_id}": format() of a member of the Enum ParcelState gives
\* the name of the class and of the member
default_name(st, feature_id) ==
    <<"P", "a", "r", "c", "e", "l", "S", "t", "a", "t", "e", ".">> \o StateValue(st)
    \o <<" ", "P", "a", "r", "c", "e", "l", " ">> \o PyStr(feature_id)

\* {k: v for k, v in properties.items() if v is not None}
NotNone(properties) ==
    [k \in {key \in DOMAIN properties : properties[key] # NoneVal} |-> properties[k]]

\* _process_feature: the list of the standardized feature, empty where it returns None
process_feature(feature, st) ==
    LET \* lines 543-555: the keys of properties come after id, state, name and area_ha
        Standard(c) ==
            <<[geometry |-> feature.geometry,
               properties |->
                   NotNone(c.properties)
                   @@ ("id" :> PyStr(c.feature_id)) @@ ("state" :> StateValue(st))
                   @@ ("name" :> c.name) @@ ("area_ha" :> area_ha(feature.geometry))]>>
        Branch(properties, feature_id, name) ==
            CASE st = "NSW" -> process_nsw(properties, feature_id, name)
              [] st = "SA" -> process_sa(properties, feature_id, name)
              [] st = "VIC" -> process_vic(properties, feature_id, name)
              [] OTHER ->
                   [feature_id |-> feature_id, name |-> name, properties |-> properties]
        Named(properties, feature_id) ==
            Branch(properties, feature_id,
                   Get(properties, name_field(st), default_name(st, feature_id)))
        Identified(properties) ==
            Named(properties, Get(properties, id_field(st), <<"u", "n", "k", "n", "o", "w", "n">>))
    IN  IF ~Truthy(feature.geometry) THEN <<>> ELSE Standard(Identified(feature.properties))

\* [processed for feature in features if processed], lines 328-332
RECURSIVE process_features(_, _)
process_features(features, st) ==
    IF features = <<>> THEN <<>>
    ELSE process_feature(Head(features), st) \o process_features(Tail(features), st)

\* lines 357-370 of _query_sa_features: the list an identifier is appended to, what is
\* appended, and whether its format was recognised
sa_classify(raw_id) ==
    LET Kind(normalized, compact) ==
            IF ARCGIS_SA_TITLE_REF_PATTERN(compact)
            THEN [list |-> "title_refs", value |-> compact, recognised |-> TRUE]
            ELSE IF ARCGIS_SA_DCDB_PATTERN(compact) # <<>>
            THEN [list |-> "dcdb_ids", value |-> compact, recognised |-> TRUE]
            ELSE IF ARCGIS_SA_PLAN_PARCEL_PATTERN(normalized)
            THEN [list |-> "plan_parcels", value |-> normalized, recognised |-> TRUE]
            ELSE [list |-> "plan_parcels", value |-> normalized, recognised |-> FALSE]
        Normalized(normalized) == Kind(normalized, RemoveChars(normalized, {" "}))
    IN  Normalized(Join(Tokens(Upper(raw_id), Whitespace), <<" ">>))

\* lines 353-381 of _query_sa_features: the list queries
sa_queries(ids) ==
    LET Listed(list) ==
            {sa_classify(ids[k]).value :
                 k \in {j \in 1..Len(ids) : ids[j] # <<>> /\ sa_classify(ids[j]).list = list}}
        Query(field_name, values) ==
            IF values = {} THEN <<>>
            ELSE <<[field_name |-> field_name, values |-> Sorted(values)]>>
    IN  Query("parcel_id", Listed("plan_parcels"))
        \o Query("title_ref", Listed("title_refs"))
        \o Query("dcdb_id", Listed("dcdb_ids"))

\* dedup[key] = processed for the processed features of one response, lines 416-420;
\* dedup is the list of the [key, value] of the dict in insertion order
RECURSIVE sa_collect(_, _)
sa_collect(d, processed) ==
    LET Key(p) ==
            PyStr(Get(p.properties, "id", Get(p.properties, "parcel_id", Int2Str(Len(d)))))
        Assign(key, value) ==
            IF \E k \in 1..Len(d) : d[k].key = key
            THEN [k \in 1..Len(d) |->
                     IF d[k].key = key THEN [key |-> key, value |-> value] ELSE d[k]]
            ELSE Append(d, [key |-> key, value |-> value])
    IN  IF processed = <<>> THEN d
        ELSE sa_collect(Assign(Key(Head(processed)), Head(processed)), Tail(processed))

\* list(dedup.values())
dict_values(d) == [k \in 1..Len(d) |-> d[k].value]

\* chunk_of with a slice that is one identifier short
chunk_of_short(values, start, size) ==
    SubSeq(values, start + 1,
           IF start + size - 1 < Len(values) THEN start + size - 1 ELSE Len(values))

\* values[i:i + self.max_ids_per_chunk]
chunk_of(values, start, size) ==
    SubSeq(values, start + 1, IF start + size < Len(values) THEN start + size ELSE Len(values))

\* lines 277-284: the quoted literals of the non-empty identifiers of a chunk
RECURSIVE where_conditions_of(_)
where_conditions_of(ids) ==
    IF ids = <<>> THEN <<>>
    ELSE IF Head(ids) = <<>> THEN where_conditions_of(Tail(ids))
    ELSE <<Quoted(Head(ids))>> \o where_conditions_of(Tail(ids))

\* lines 385-386: the quoted literals of the values of a chunk
sa_where_values(values) == [k \in 1..Len(values) |-> Quoted(values[k])]

\* after_failed_chunk where the failure loses what was collected
after_failed_chunk_reset(collected) == <<>>

\* except Exception: ... continue, lines 339-341 and 413-414: what was collected stays
after_failed_chunk(collected) == collected

(***************************************************************************)
(* The calls of query_features of the model                                *)
(***************************************************************************)
\* most identifiers of a call
MaxIds == 3

\* largest max_ids_per_chunk of a client
MaxChunk == 2

\* most features of one response
MaxFeatures == 2

\* stop=stop_after_attempt(3) of the decorator of query_features
stop_after_attempt == 3

S_POLYGON == <<"P", "o", "l", "y", "g", "o", "n">>

S_POINT == <<"P", "o", "i", "n", "t">>

\* the identifiers the calls are built from
NswQueryIds ==
    {<<"1", "/", "/", "D", "P", "1">>, <<"2", "/", "/", "D", "P", "1">>, <<>>}

QldQueryIds == {<<"1", "R", "P", "1", "2">>, <<"2", "R", "P", "1", "2">>, <<>>}

VicQueryIds ==
    {<<"1", "\\", "P", "S", "1", "2">>, <<"2", "\\", "P", "S", "1", "2">>, <<>>}

\* the ids parse_sa returns for a title reference and for a plan and a parcel
SaParsedIds ==
    {parse_sa(text).valid[1].id :
         text \in {<<"C", "T", "1", "/", "2">>, <<"D", "1", " ", "A", "2">>}}

\* and a title reference and a DCDB id as the map service has them
SaQueryIds == SaParsedIds \cup {<<"c", "t", "1", "/", "2">>, <<"d", "1", "a", "2">>}

QueryIds(st) ==
    CASE st = "NSW" -> NswQueryIds
      [] st = "QLD" -> QldQueryIds
      [] st = "SA" -> SaQueryIds
      [] st = "VIC" -> VicQueryIds

\* the GeoJSON features the responses of the map service of a state are built from
NswFeatures ==
    {[geometry |-> S_POLYGON,
      properties |-> ("lotidstring" :> <<"1", "/", "/", "d", "p", "1">>)
                     @@ ("sectionnumber" :> NoneVal)],
     [geometry |-> S_POINT,
      properties |-> ("lotidstring" :> <<"2", "/", "/", "D", "P", "1">>)
                     @@ ("planlabel" :> <<"D", "P", "1">>)],
     [geometry |-> NoneVal,
      properties |-> ("lotidstring" :> <<"1", "/", "/", "D", "P", "1">>)]}

QldFeatures ==
    {[geometry |-> S_POLYGON,
      properties |-> ("lotplan" :> <<"1", "R", "P", "1", "2">>)
                     @@ ("addr_legal" :> <<"L", "1">>)],
     [geometry |-> S_POINT,
      properties |-> ("lotplan" :> <<"2", "R", "P", "1", "2">>)
                     @@ ("addr_legal" :> NoneVal)],
     [geometry |-> NoneVal,
      properties |-> ("lotplan" :> <<"1", "R", "P", "1", "2">>)]}

VicFeatures ==
    {[geometry |-> S_POLYGON,
      properties |-> ("PARCEL_SPI" :> <<"1", "\\", "p", "s", "1", "2">>)
                     @@ ("PARCEL_LOT_NUMBER" :> NoneVal)],
     [geometry |-> S_POINT,
      properties |-> ("PARCEL_SPI" :> <<"2", "\\", "P", "S", "1", "2">>)],
     [geometry |-> NoneVal,
      properties |-> ("PARCEL_SPI" :> <<"1", "\\", "P", "S", "1", "2">>)]}

SaFeatures ==
    {[geometry |-> S_POLYGON,
      properties |-> ("parcel_id" :> <<"D", "1", " ", "A", "2">>)
                     @@ ("title_ref" :> <<"C", "T", "1", "/", "2">>)
                     @@ ("dcdb_id" :> <<"D", "1", "A", "2">>)],
     [geometry |-> S_POINT,
      properties |-> ("dcdb_id" :> <<"d", "1", " ", "a", "2">>)
                     @@ ("title_ref" :> NoneVal)],
     [geometry |-> S_POLYGON,
      properties |-> ("parcel_id" :> <<"d", "1", " ", " ", "7">>)]}

FeaturePool(st) ==
    CASE st = "NSW" -> NswFeatures
      [] st = "QLD" -> QldFeatures
      [] st = "SA" -> SaFeatures
      [] st = "VIC" -> VicFeatures

\* data['features'] of a response: distinct features of the service in some order
Responses(st) ==
    {features \in UNION {[1..n -> FeaturePool(st)] : n \in 0..MaxFeatures} :
         \A j, k \in 1..Len(features) : j # k => features[j] # features[k]}

\* the bbox of a call: None, a list too short for bbox[3], a bounding box
BBoxes == {<<>>, <<1, 2>>, <<1, 2, 3, 4>>}

NoResult == [kind |-> "none", features |-> <<>>]

(***************************************************************************)
(* parse_parcel_input as a state machine                                   *)
(***************************************************************************)
\* no call of query_features
QueryIdle ==
    /\ parcel_ids = <<>>
    /\ max_ids_per_chunk = 1
    /\ bbox = <<>>
    /\ attempt = 0
    /\ queries = <<>>
    /\ query_index = 0
    /\ offset = 0
    /\ all_features = <<>>
    /\ dedup = <<>>
    /\ requests = <<>>
    /\ result = NoResult

NoRenorm == [k |-> 0, ok |-> FALSE, id |-> NoneVal]

\* no call of parse_parcel_input
ParseIdle ==
    /\ raw_text = <<>>
    /\ valid = <<>>
    /\ malformed = <<>>
    /\ renorm = NoRenorm

NoException == [type |-> "none", message |-> <<>>, code |-> NoneVal]

\* no call of search_parcels
SearchIdle ==
    /\ term = <<>>
    /\ page = 1
    /\ page_size = 1
    /\ raised = NoException
    /\ sleeps = 0

\* no call of query_parcels_bulk
BulkIdle ==
    /\ parcel_ids_by_state = <<>>
    /\ tasks = <<>>
    /\ results = <<>>

NoLimiter == [max_requests |-> 0, window_seconds |-> 0, requests |-> <<>>]

\* no RateLimiter
LimiterIdle ==
    /\ limiter = NoLimiter
    /\ now = 0
    /\ calls = <<>>

NoSession == [state |-> "none", closes |-> 0]

\* no ArcGISClient
SessionIdle ==
    /\ session = NoSession
    /\ flights = <<>>

ExtIdle == LimiterIdle /\ SessionIdle

Init ==
    /\ ExtIdle
    /\ state \in States
    /\ raw_text \in RawTexts(state)
    /\ valid = <<>>
    /\ malformed = <<>>
    /\ renorm = NoRenorm
    /\ pc = "start"
    /\ QueryIdle
    /\ SearchIdle
    /\ BulkIdle

\* one call of parse_parcel_input(state, raw_text)
Returned(r) == valid' = r.valid /\ malformed' = r.malformed

Parse ==
    /\ pc = "start"
    /\ Returned(parse_parcel_input(state, raw_text))
    /\ pc' = "parsed"
    /\ UNCHANGED <<extVars, state, searchVars, bulkVars, raw_text, renorm, queryVars>>

Renormalized(k, r) == renorm' = [k |-> k, ok |-> r.ok, id |-> r.id]

\* the id of a returned entry is fed back to the normalizer of the state
Renormalize ==
    /\ pc = "parsed"
    /\ \E k \in 1..Len(valid) : Renormalized(k, Normalize(state, valid[k].id))
    /\ pc' = "renormalized"
    /\ UNCHANGED <<extVars, state, searchVars, bulkVars, raw_text, valid, malformed, queryVars>>

Next == Parse \/ Renormalize

Spec == Init /\ [][Next]_vars

(***************************************************************************)
(* ArcGISClient.query_features as a state machine                          *)
(***************************************************************************)
QueryInit ==
    /\ ExtIdle
    /\ state \in States
    /\ parcel_ids \in UNION {[1..n -> QueryIds(state)] : n \in 0..MaxIds}
    /\ max_ids_per_chunk \in 1..MaxChunk
    /\ bbox \in BBoxes
    /\ attempt = 1
    /\ queries = <<>>
    /\ query_index = 0
    /\ offset = 0
    /\ all_features = <<>>
    /\ dedup = <<>>
    /\ requests = <<>>
    /\ result = NoResult
    /\ pc = "call"
    /\ raw_text = <<>>
    /\ valid = <<>>
    /\ malformed = <<>>
    /\ renorm = NoRenorm
    /\ SearchIdle
    /\ BulkIdle

\* lines 264-270 and 352-383: an attempt of query_features starts
Call ==
    /\ pc = "call"
    /\ queries' = IF state = "SA" THEN sa_queries(parcel_ids) ELSE <<>>
    /\ query_index' = 1
    /\ offset' = 0
    /\ all_features' = <<>>
    /\ dedup' = <<>>
    /\ pc' = "loop"
    /\ UNCHANGED <<extVars, state, searchVars, bulkVars, parseVars, parcel_ids, max_ids_per_chunk, bbox, attempt, requests,
                   result>>

\* the list the loop chunks: parcel_ids, or the values of the query at hand
Values ==
    IF state # "SA" THEN parcel_ids
    ELSE IF query_index \in 1..Len(queries) THEN queries[query_index].values
    ELSE <<>>

\* the column of the IN list
field_name == IF state = "SA" THEN queries[query_index].field_name ELSE id_field(state)

chunk == chunk_of(Values, offset, max_ids_per_chunk)

where_conditions ==
    IF state = "SA" THEN sa_where_values(chunk) ELSE where_conditions_of(chunk)

\* a chunk is left to do
InLoop == pc = "loop" /\ offset < Len(Values)

\* the next i of range(0, len(values), max_ids_per_chunk), or the next query
NextChunk ==
    IF state = "SA" /\ offset + max_ids_per_chunk >= Len(Values)
    THEN query_index' = query_index + 1 /\ offset' = 0
    ELSE query_index' = query_index /\ offset' = offset + max_ids_per_chunk

\* lines 286-288: a chunk without a non-empty identifier is skipped
SkipEmptyChunk ==
    /\ InLoop
    /\ where_conditions = <<>>
    /\ NextChunk
    /\ UNCHANGED <<extVars, state, searchVars, bulkVars, pc, parseVars, parcel_ids, max_ids_per_chunk, bbox, attempt,
                   queries, all_features, dedup, requests, result>>

\* bbox[3] of lines 301-306 and 397-402 raises IndexError, outside the try
BBoxIndexError == InLoop /\ where_conditions # <<>> /\ bbox # <<>> /\ Len(bbox) < 4

\* the decorator calls query_features again
Retry ==
    /\ BBoxIndexError
    /\ attempt < stop_after_attempt
    /\ attempt' = attempt + 1
    /\ pc' = "call"
    /\ UNCHANGED <<extVars, state, searchVars, bulkVars, parseVars, parcel_ids, max_ids_per_chunk, bbox, queries,
                   query_index, offset, all_features, dedup, requests, result>>

\* the decorator raises RetryError after the last attempt
GiveUp ==
    /\ BBoxIndexError
    /\ attempt = stop_after_attempt
    /\ result' = [kind |-> "raised", features |-> <<>>]
    /\ pc' = "done"
    /\ UNCHANGED <<extVars, state, searchVars, bulkVars, parseVars, parcel_ids, max_ids_per_chunk, bbox, attempt, queries,
                   query_index, offset, all_features, dedup, requests>>

\* the GET of a chunk can be issued
CanRequest == InLoop /\ where_conditions # <<>> /\ (bbox = <<>> \/ Len(bbox) >= 4)

\* the request of the chunk at hand and what came back
Request(outcome, features) ==
    [attempt |-> attempt, query |-> query_index, start |-> offset,
     field_name |-> field_name, upper |-> state = "SA", literals |-> where_conditions,
     geometry |-> IF bbox = <<>> THEN <<>> ELSE SubSeq(bbox, 1, 4),
     outcome |-> outcome, features |-> features]

\* lines 328-334 and 406-411: the processed features of a response are collected
Collected(processed) ==
    IF state = "SA"
    THEN dedup' = sa_collect(dedup, processed) /\ all_features' = all_features
    ELSE all_features' = all_features \o processed /\ dedup' = dedup

\* the response of a chunk has features
ChunkFeatures ==
    /\ CanRequest
    /\ \E features \in Responses(state) :
           /\ requests' = Append(requests, Request("features", features))
           /\ Collected(process_features(features, state))
    /\ NextChunk
    /\ UNCHANGED <<extVars, state, searchVars, bulkVars, pc, parseVars, parcel_ids, max_ids_per_chunk, bbox, attempt,
                   queries, result>>

\* the chunk at hand contributes nothing
Failed(outcome) ==
    /\ requests' = Append(requests, Request(outcome, <<>>))
    /\ all_features' = after_failed_chunk(all_features)
    /\ dedup' = after_failed_chunk(dedup)
    /\ NextChunk
    /\ UNCHANGED <<extVars, state, searchVars, bulkVars, pc, parseVars, parcel_ids, max_ids_per_chunk, bbox, attempt,
                   queries, result>>

\* lines 320-322: the response has 'error' and no 'features'
ChunkError == CanRequest /\ Failed("error")

\* lines 323-325: the response has neither 'features' nor 'error'
ChunkUnexpected == CanRequest /\ Failed("unexpected")

\* lines 339-341 and 413-414: the GET, raise_for_status() or json() raises
ChunkException == CanRequest /\ Failed("exception")

\* lines 343-344 and 416-417
Return ==
    /\ pc = "loop"
    /\ ~InLoop
    /\ result' = [kind |-> "returned",
                  features |-> IF state = "SA" THEN dict_values(dedup) ELSE all_features]
    /\ pc' = "done"
    /\ UNCHANGED <<extVars, state, searchVars, bulkVars, parseVars, parcel_ids, max_ids_per_chunk, bbox, attempt, queries,
                   query_index, offset, all_features, dedup, requests>>

QueryNext ==
    \/ Call
    \/ SkipEmptyChunk
    \/ Retry
    \/ GiveUp
    \/ ChunkFeatures
    \/ ChunkError
    \/ ChunkUnexpected
    \/ ChunkException
    \/ Return

QuerySpec == QueryInit /\ [][QueryNext]_vars


(***************************************************************************)
(* arcgis.py: search_parcels                                               *)
(***************************************************************************)
\* MAX_SEARCH_PAGE_SIZE
MAX_SEARCH_PAGE_SIZE == 50

\* stop_after_attempt(3) of the @retry of search_parcels
search_stop_after_attempt == 3

\* cleaned[:100]
MaxTermLen == 100

\* STATE_FIELD_MAPPINGS[ParcelState.NSW]
lot_field == "lotnumber"

section_field == "sectionnumber"

plan_field == "planlabel"

order_field == "planlabel"

like_fields == <<"planlabel", "lotidstring", "lotnumber", "sectionnumber">>

\* the characters [A-Za-z0-9\s/\-] that _sanitize_search_term keeps
SearchTermChars == UpperLetters \cup LowerLetters \cup Digits \cup Whitespace \cup {"/", "-"}

\* _sanitize_search_term
sanitize_search_term(raw) ==
    LET Kept(s) == [i \in 1..Len(s) |-> IF s[i] \in SearchTermChars THEN s[i] ELSE " "]
        Truncated(cleaned) ==
            SubSeq(cleaned, 1, IF Len(cleaned) < MaxTermLen THEN Len(cleaned) ELSE MaxTermLen)
    IN  Truncated(Strip(RunsToSpace(Kept(Upper(raw)), Whitespace)))

\* re.fullmatch(r"(?P<lot>[A-Z0-9\-]+)(?:/(?P<section>[A-Z0-9\-]+))?//(?P<plan>[A-Z0-9\-]+)"):
\* <<lot, section, plan>> with NoneVal for a section that is absent, <<>> for no match
nsw_structured_match(compact_term) ==
    LET Value(part) == part # <<>> /\ AllIn(part, UpperAlnum \cup {"-"})
        Matched(parts) ==
            IF Len(parts) = 3 /\ Value(parts[1]) /\ parts[2] = <<>> /\ Value(parts[3])
            THEN <<parts[1], NoneVal, parts[3]>>
            ELSE IF Len(parts) = 4 /\ Value(parts[1]) /\ Value(parts[2]) /\ parts[3] = <<>>
                    /\ Value(parts[4])
            THEN <<parts[1], parts[2], parts[4]>>
            ELSE <<>>
    IN  Matched(SplitKeep(compact_term, {"/"}))

\* one comparison of a WHERE clause: field = 'literal', or UPPER(field) LIKE 'literal'
Clause(field, op, literal) == [field |-> field, op |-> op, literal |-> literal]

\* lines 150-166: the clauses of a structured term
precise_clauses(match) ==
    <<Clause(lot_field, "=", match[1])>>
    \o (IF Truthy(match[2]) THEN <<Clause(section_field, "=", match[2])>> ELSE <<>>)
    \o <<Clause(plan_field, "UPPER LIKE", match[3] \o <<"%">>)>>

\* lines 171-177: the wildcard clauses over the like-fields
where_clauses(sanitized_term) ==
    LET Like(pattern) ==
            [k \in 1..Len(like_fields) |-> Clause(like_fields[k], "UPPER LIKE", pattern)]
    IN  Like(<<"%">> \o ReplaceChar(sanitized_term, " ", "%") \o <<"%">>)

where_clause_wildcard(sanitized_term) ==
    [connective |-> "OR", clauses |-> where_clauses(sanitized_term)]

\* lines 136-177: where_clause, the clauses and the connective that joins them
where_clause(sanitized_term) ==
    LET Structured(match) ==
            IF match # <<>>
            THEN [connective |-> "AND", clauses |-> precise_clauses(match)]
            ELSE [connective |-> "OR", clauses |-> where_clauses(sanitized_term)]
    IN  Structured(nsw_structured_match(RemoveChars(sanitized_term, {" "})))

\* lines 111-113: page and page_size as the call uses them
clamped_page(p) == IF p < 1 THEN 1 ELSE p

clamped_page_size(n) ==
    IF n > MAX_SEARCH_PAGE_SIZE THEN MAX_SEARCH_PAGE_SIZE ELSE IF n < 1 THEN 1 ELSE n

\* _build_search_result: the list of the SearchResult, empty where it returns None
build_search_result(attributes) ==
    LET TitleParts(lot, plan) ==
            (IF Truthy(lot) THEN <<<<"L", "o", "t", " ">> \o lot>> ELSE <<>>)
            \o (IF Truthy(plan) THEN <<plan>> ELSE <<>>)
        LabelParts(address, title_parts) ==
            (IF Truthy(address) THEN <<address>> ELSE <<>>)
            \o (IF title_parts # <<>> THEN <<Join(title_parts, <<" ">>)>> ELSE <<>>)
        Label(parcel_id, label_parts) ==
            IF label_parts # <<>> THEN Join(label_parts, <<" ", "·", " ">>) ELSE parcel_id
        Result(parcel_id, normalized_id, address, lot, plan) ==
            <<[id |-> normalized_id, state |-> StateValue("NSW"),
               label |-> Label(parcel_id, LabelParts(address, TitleParts(lot, plan))),
               address |-> address, lot |-> lot, plan |-> plan, locality |-> NoneVal]>>
        Normalised(parcel_id, r) ==
            IF r.ok
            THEN Result(parcel_id, r.id, Get(attributes, name_field("NSW"), NoneVal),
                        r.lot, r.plan)
            ELSE Result(parcel_id, parcel_id, Get(attributes, name_field("NSW"), NoneVal),
                        Get(attributes, lot_field, NoneVal), Get(attributes, plan_field, NoneVal))
        Built(parcel_id) ==
            IF parcel_id = NoneVal THEN <<>>
            ELSE Normalised(parcel_id, normalize_nsw_identifier(parcel_id))
    IN  Built(Get(attributes, id_field("NSW"), NoneVal))

\* lines 240-247: the results of the features of a payload
RECURSIVE build_search_results(_)
build_search_results(features) ==
    IF features = <<>> THEN <<>>
    ELSE build_search_result(Head(features)) \o build_search_results(Tail(features))

\* lines 229-236: the message of the ArcGISError of an error payload
arcgis_error_message(error_info) ==
    LET NonEmpty(details) == SelectSeq(details, LAMBDA item : item # <<>>)
        Detailed(message, detail_text) ==
            IF detail_text # <<>> THEN message \o <<":", " ">> \o detail_text ELSE message
        WithDetails(message, details) ==
            IF details # <<>> THEN Detailed(message, Join(NonEmpty(details), <<";", " ">>))
            ELSE message
        Message(message) ==
            WithDetails(IF Truthy(message) THEN message ELSE <<"A", "r", "c", "G", "I", "S", " ", "A", "P", "I", " ", "e", "r", "r", "o", "r">>,
                        Get(error_info, "details", <<>>))
    IN  Message(Get(error_info, "message", NoneVal))

\* ArcGISError(message, code=error_info.get('code'))
ArcGISError(error_info) ==
    [type |-> "ArcGISError", message |-> arcgis_error_message(error_info),
     code |-> Get(error_info, "code", NoneVal)]

\* ValueError of line 109
UnsupportedState ==
    [type |-> "ValueError",
     message |-> <<"P", "a", "r", "c", "e", "l", " ", "s", "e", "a", "r", "c", "h", " ", "i", "s", " ", "c", "u", "r", "r", "e", "n", "t", "l", "y", " ", "s", "u", "p", "p", "o", "r", "t", "e", "d", " ", "o", "n", "l", "y", " ", "f", "o", "r", " ", "N", "S", "W">>,
     code |-> NoneVal]

\* what response.raise_for_status() or session.get raises
HTTPError == [type |-> "HTTPError", message |-> <<>>, code |-> NoneVal]

\* main.py, search_parcels_endpoint: the HTTP status answered for an outcome
search_endpoint_status(outcome, exception) ==
    IF outcome.kind = "returned" THEN 200
    ELSE IF exception.type = "ValueError" THEN 400
    ELSE IF exception.type = "ArcGISError" THEN 502
    ELSE 500

\* the search terms of the calls
SearchTerms ==
    {<<"1", "2", "/", "3", "/", "/", "D", "P", "9", "9", "9", "9">>,
     <<"1", "2", "/", "/", "d", "p", "9", "9", "9", "9">>,
     <<"1", " ", "/", " ", "2", " ", "/", "/", " ", "d", "p", " ", "3">>,
     <<"1", "-", "2", "/", "/", "D", "P", "-", "3">>,
     <<"g", "e", "o", "r", "g", "e", " ", " ", "s", "t", "r", "e", "e", "t">>,
     <<"o", "'", "b", "r", "i", "e", "n">>,
     <<"1", "2", "/", "/">>,
     <<"1", "/", "/", "/", "D", "P", "3">>,
     <<"/", "/", "D", "P", "3">>,
     <<" ", "!">>,
     <<>>}

\* page and page_size of the calls: below, at, inside and above the bounds
Pages == {0, 1, 2}

PageSizes == {0, 10, 50, 51}

\* the attributes of the Esri-JSON features of the responses
SearchAttributes ==
    <<("lotidstring" :> <<"1", "2", "/", "3", "/", "/", "d", "p", "9", "9", "9", "9">>) @@ ("lotnumber" :> <<"1", "2">>)
          @@ ("planlabel" :> <<"D", "P", "9", "9", "9", "9">>),
      ("lotnumber" :> <<"1">>),
      ("lotidstring" :> <<"x">>) @@ ("planlabel" :> NoneVal)>>

\* payload['features']
SearchFeatureLists ==
    {<<>>, <<SearchAttributes[1]>>, <<SearchAttributes[2], SearchAttributes[1]>>,
     <<SearchAttributes[3]>>}

\* payload['error']: with code and message, with details and no code, and {} (or None)
SearchErrors ==
    {("code" :> <<"5", "0", "0">>) @@ ("message" :> <<"S", "e", "r", "v", "i", "c", "e", " ", "u", "n", "a", "v", "a", "i", "l", "a", "b", "l", "e">>),
     ("message" :> <<"B", "a", "d">>) @@ ("details" :> <<<<"x">>, <<>>, <<"y">>>>),
     <<>>}

\* response.json(): features, an error, both, or neither
SearchPayloads ==
    {("features" :> f) : f \in SearchFeatureLists}
    \cup {("error" :> e) : e \in SearchErrors}
    \cup {("error" :> e) @@ ("features" :> <<SearchAttributes[1]>>) : e \in SearchErrors}
    \cup {<<>>}

SearchInit ==
    /\ ExtIdle
    /\ state \in States
    /\ term \in SearchTerms
    /\ page \in Pages
    /\ page_size \in PageSizes
    /\ attempt = 1
    /\ raised = NoException
    /\ sleeps = 0
    /\ requests = <<>>
    /\ result = NoResult
    /\ pc = "search"
    /\ parcel_ids = <<>>
    /\ max_ids_per_chunk = 1
    /\ bbox = <<>>
    /\ queries = <<>>
    /\ query_index = 0
    /\ offset = 0
    /\ all_features = <<>>
    /\ dedup = <<>>
    /\ ParseIdle
    /\ BulkIdle

\* what an attempt of search_parcels leaves alone
SearchFrame ==
    UNCHANGED <<extVars, state, term, page, page_size, sleeps, attempt, parseVars, bulkVars, parcel_ids,
                max_ids_per_chunk, bbox, queries, query_index, offset, all_features, dedup>>

\* lines 108-109: the state is not NSW
SearchUnsupported ==
    /\ pc = "search"
    /\ state # "NSW"
    /\ raised' = UnsupportedState
    /\ pc' = "search_failed"
    /\ UNCHANGED <<requests, result>>
    /\ SearchFrame

\* lines 115-118: nothing is left of the term
SearchNoTerm ==
    /\ pc = "search"
    /\ state = "NSW"
    /\ sanitize_search_term(term) = <<>>
    /\ result' = [kind |-> "returned", features |-> <<>>]
    /\ pc' = "done"
    /\ UNCHANGED <<requests, raised>>
    /\ SearchFrame

CanSearch == pc = "search" /\ state = "NSW" /\ sanitize_search_term(term) # <<>>

\* lines 179-225: the GET of the attempt, with what came back
SearchRequest(outcome, payload) ==
    requests' = Append(requests,
                       [attempt |-> attempt,
                        where |-> where_clause(sanitize_search_term(term)),
                        resultOffset |-> (clamped_page(page) - 1) * clamped_page_size(page_size),
                        resultRecordCount |-> clamped_page_size(page_size),
                        orderByFields |-> order_field,
                        outcome |-> outcome,
                        payload |-> payload])

\* lines 224-225: session.get or raise_for_status raises
SearchHTTPError ==
    /\ CanSearch
    /\ SearchRequest("exception", <<>>)
    /\ raised' = HTTPError
    /\ pc' = "search_failed"
    /\ UNCHANGED result
    /\ SearchFrame

\* lines 229-238: the payload has 'error'
SearchErrorPayload ==
    /\ CanSearch
    /\ \E payload \in {p \in SearchPayloads : "error" \in DOMAIN p} :
           /\ SearchRequest("json", payload)
           /\ raised' = ArcGISError(payload["error"])
    /\ pc' = "search_failed"
    /\ UNCHANGED result
    /\ SearchFrame

\* lines 240-250: the results of the features of the payload are returned
SearchResults ==
    /\ CanSearch
    /\ \E payload \in {p \in SearchPayloads : "error" \notin DOMAIN p} :
           /\ SearchRequest("json", payload)
           /\ result' = [kind |-> "returned",
                         features |-> build_search_results(Get(payload, "features", <<>>))]
    /\ pc' = "done"
    /\ UNCHANGED raised
    /\ SearchFrame

\* tenacity: any exception of an attempt before the last is followed by a wait and
\* another attempt
SearchRetry ==
    /\ pc = "search_failed"
    /\ attempt < search_stop_after_attempt
    /\ attempt' = attempt + 1
    /\ sleeps' = sleeps + 1
    /\ pc' = "search"
    /\ UNCHANGED <<extVars, state, term, page, page_size, raised, requests, result, parseVars, bulkVars,
                   parcel_ids, max_ids_per_chunk, bbox, queries, query_index, offset,
                   all_features, dedup>>

\* tenacity, reraise=True: the exception of the last attempt reaches the caller
SearchReraise ==
    /\ pc = "search_failed"
    /\ attempt >= search_stop_after_attempt
    /\ result' = [kind |-> "raised", features |-> <<>>]
    /\ pc' = "done"
    /\ UNCHANGED <<requests, raised>>
    /\ SearchFrame

SearchNext ==
    \/ SearchUnsupported
    \/ SearchNoTerm
    \/ SearchHTTPError
    \/ SearchErrorPayload
    \/ SearchResults
    \/ SearchRetry
    \/ SearchReraise

SearchSpec == SearchInit /\ [][SearchNext]_vars

(***************************************************************************)
(* query_features called with identifiers that hold single quotes          *)
(***************************************************************************)
QuoteMaxIds == 2

\* identifiers with one quote, with a leading and a doubled quote, and the empty one
QuoteIds == {<<"o", "'", "1">>, <<"'", "a", "'", "'">>, <<>>}

QuoteInit ==
    /\ ExtIdle
    /\ state \in States
    /\ parcel_ids \in UNION {[1..n -> QuoteIds] : n \in 0..QuoteMaxIds}
    /\ max_ids_per_chunk \in 1..MaxChunk
    /\ bbox \in BBoxes
    /\ attempt = 1
    /\ queries = <<>>
    /\ query_index = 0
    /\ offset = 0
    /\ all_features = <<>>
    /\ dedup = <<>>
    /\ requests = <<>>
    /\ result = NoResult
    /\ pc = "call"
    /\ ParseIdle
    /\ SearchIdle
    /\ BulkIdle

QuoteSpec == QuoteInit /\ [][QueryNext]_vars

(***************************************************************************)
(* arcgis.py: query_parcels_bulk                                           *)
(***************************************************************************)
BulkMaxStates == 2

BulkMaxIds == 1

\* the (state, parcel_ids) items of the dict of a call, in the order of the dict; a
\* list is shorter than max_ids_per_chunk, so that every IN list is one chunk
BulkItems ==
    {[state |-> st, parcel_ids |-> ids] :
         st \in States, ids \in UNION {[1..n -> UNION {QueryIds(s) : s \in States}] :
                                            n \in 0..BulkMaxIds}}

BulkInputs ==
    {items \in UNION {[1..n -> BulkItems] : n \in 0..BulkMaxStates} :
         /\ \A j, k \in 1..Len(items) : j # k => items[j].state # items[k].state
         /\ \A j \in 1..Len(items) :
                \A k \in 1..Len(items[j].parcel_ids) :
                    items[j].parcel_ids[k] \in QueryIds(items[j].state)}

\* the requests query_features issues for the identifiers of a task: one for each
\* scheme query of SA, one for the non-empty identifiers of another state
task_requests(st, ids) ==
    IF st = "SA" THEN Len(sa_queries(ids))
    ELSE IF where_conditions_of(ids) # <<>> THEN 1 ELSE 0

\* lines 301-306 and 399-404: bbox[3] raises IndexError in each attempt of the task,
\* and tenacity raises after the last attempt
task_raises(st, ids, box) == task_requests(st, ids) > 0 /\ box # <<>> /\ Len(box) < 4

\* what the request of a chunk gives: the features of the response, or a failure
ChunkOutcomes(st) ==
    {[outcome |-> "features", features |-> f] : f \in Responses(st)}
    \cup {[outcome |-> "failed", features |-> <<>>]}

\* lines 406-411: dedup after the responses of the scheme queries
RECURSIVE sa_collect_all(_, _)
sa_collect_all(d, responses) ==
    IF responses = <<>> THEN d
    ELSE sa_collect_all(sa_collect(d, process_features(Head(responses).features, "SA")),
                        Tail(responses))

\* the list query_features returns after the responses of its requests
task_features(st, responses) ==
    IF st = "SA" THEN dict_values(sa_collect_all(<<>>, responses))
    ELSE Flatten([k \in 1..Len(responses) |-> process_features(responses[k].features, st)])

Pending == [kind |-> "pending", features |-> <<>>]

\* lines 637-641: a task for every state that has identifiers
bulk_tasks(items) == SelectSeq(items, LAMBDA item : item.parcel_ids # <<>>)

\* lines 649-654: the lists of the tasks that returned, in the order of the tasks
bulk_all_features(rs) ==
    Flatten([k \in 1..Len(rs) |-> IF rs[k].kind = "returned" THEN rs[k].features ELSE <<>>])

\* Feature(**feature_data) validates: properties.id and properties.name are str and
\* properties.state is a ParcelState
feature_validates(feature_data) ==
    /\ Truthy(feature_data.geometry)
    /\ Get(feature_data.properties, "id", NoneVal) # NoneVal
    /\ Get(feature_data.properties, "name", NoneVal) # NoneVal
    /\ Get(feature_data.properties, "state", NoneVal) \in {StateValue(st) : st \in States}

\* lines 656-663: the features that validate
feature_objects(features) == SelectSeq(features, feature_validates)

BulkInit ==
    /\ ExtIdle
    /\ parcel_ids_by_state \in BulkInputs
    /\ bbox \in BBoxes
    /\ tasks = <<>>
    /\ results = <<>>
    /\ result = NoResult
    /\ pc = "bulk"
    /\ state = "NSW"
    /\ parcel_ids = <<>>
    /\ max_ids_per_chunk = 1
    /\ attempt = 0
    /\ queries = <<>>
    /\ query_index = 0
    /\ offset = 0
    /\ all_features = <<>>
    /\ dedup = <<>>
    /\ requests = <<>>
    /\ ParseIdle
    /\ SearchIdle

BulkFrame ==
    UNCHANGED <<extVars, state, parseVars, searchVars, parcel_ids_by_state, parcel_ids,
                max_ids_per_chunk, bbox, attempt, queries, query_index, offset,
                all_features, dedup, requests>>

\* lines 643-644: no state has identifiers
BulkNoTasks ==
    /\ pc = "bulk"
    /\ bulk_tasks(parcel_ids_by_state) = <<>>
    /\ result' = [kind |-> "returned", features |-> <<>>]
    /\ pc' = "done"
    /\ UNCHANGED <<tasks, results>>
    /\ BulkFrame

\* lines 637-647: the tasks are created and awaited together
BulkGather ==
    /\ pc = "bulk"
    /\ bulk_tasks(parcel_ids_by_state) # <<>>
    /\ tasks' = bulk_tasks(parcel_ids_by_state)
    /\ results' = [k \in 1..Len(bulk_tasks(parcel_ids_by_state)) |-> Pending]
    /\ pc' = "gather"
    /\ UNCHANGED result
    /\ BulkFrame

\* the query_features call of a task raises
TaskRaises ==
    /\ pc = "gather"
    /\ \E k \in 1..Len(tasks) :
           /\ results[k] = Pending
           /\ task_raises(tasks[k].state, tasks[k].parcel_ids, bbox)
           /\ results' = [results EXCEPT ![k] = [kind |-> "raised", features |-> <<>>]]
    /\ UNCHANGED <<pc, tasks, result>>
    /\ BulkFrame

\* the query_features call of a task returns
TaskReturns ==
    /\ pc = "gather"
    /\ \E k \in 1..Len(tasks) :
           /\ results[k] = Pending
           /\ ~task_raises(tasks[k].state, tasks[k].parcel_ids, bbox)
           /\ \E responses \in [1..task_requests(tasks[k].state, tasks[k].parcel_ids)
                                   -> ChunkOutcomes(tasks[k].state)] :
                  results' = [results EXCEPT
                                  ![k] = [kind |-> "returned",
                                          features |-> task_features(tasks[k].state, responses)]]
    /\ UNCHANGED <<pc, tasks, result>>
    /\ BulkFrame

\* line 647: gather(return_exceptions=True) ends when every task has ended
gather_ends(rs) == \A k \in 1..Len(rs) : rs[k] # Pending

\* lines 647-665: gather(return_exceptions=True) ends when every task has ended, an
\* exception is a result; the features that validate are returned
BulkReturn ==
    /\ pc = "gather"
    /\ gather_ends(results)
    /\ result' = [kind |-> "returned",
                  features |-> feature_objects(bulk_all_features(results))]
    /\ pc' = "done"
    /\ UNCHANGED <<tasks, results>>
    /\ BulkFrame

BulkNext == BulkNoTasks \/ BulkGather \/ TaskRaises \/ TaskReturns \/ BulkReturn

BulkSpec == BulkInit /\ [][BulkNext]_vars

(***************************************************************************)
(* query_features and the fields of a response                             *)
(***************************************************************************)
ResponseMaxIds == 2

\* features whose server attributes have the names of the standardized fields
ServerFieldFeatures(st) ==
    {[geometry |-> S_POLYGON,
      properties |-> (id_field(st) :> <<"7">>) @@ ("id" :> <<"9">>)
                     @@ ("state" :> <<"X">>)],
     [geometry |-> S_POLYGON,
      properties |-> (id_field(st) :> <<"7">>) @@ ("name" :> <<"n">>)
                     @@ ("area_ha" :> <<"0">>) @@ ("id" :> NoneVal)]}

\* data['features'] of a response of the service
ResponseLists(st) == Responses(st) \cup {<<f>> : f \in ServerFieldFeatures(st)}

ResponseInit ==
    /\ QueryInit
    /\ Len(parcel_ids) <= ResponseMaxIds
    /\ max_ids_per_chunk = 1

\* lines 319-320 and 415: the response has 'features', with an 'error' field or
\* without one
ResponseFeatures ==
    /\ CanRequest
    /\ \E features \in ResponseLists(state), outcome \in {"features", "features_and_error"} :
           /\ requests' = Append(requests, Request(outcome, features))
           /\ Collected(process_features(features, state))
    /\ NextChunk
    /\ UNCHANGED <<extVars, state, searchVars, bulkVars, pc, parseVars, parcel_ids, max_ids_per_chunk,
                   bbox, attempt, queries, result>>

ResponseNext ==
    \/ Call
    \/ SkipEmptyChunk
    \/ Retry
    \/ GiveUp
    \/ ResponseFeatures
    \/ ChunkError
    \/ ChunkUnexpected
    \/ ChunkException
    \/ Return

ResponseSpec == ResponseInit /\ [][ResponseNext]_vars
(***************************************************************************)
(* utils/rate_limit.py: RateLimiter                                        *)
(***************************************************************************)
LimiterMaxRequests == 2

LimiterMaxWindow == 2

MaxTime == 4

MaxCalls == 5

\* the client addresses of the calls
Identifiers == {"a", "b"}

\* lines 22-24: popleft() while the oldest time is before the window
RECURSIVE clean_old_requests(_, _)
clean_old_requests(request_times, window_start) ==
    IF request_times # <<>> /\ Head(request_times) < window_start
    THEN clean_old_requests(Tail(request_times), window_start)
    ELSE request_times

\* the limit is reached only when more than max_requests times are recorded
over_limit_off_by_one(request_times, max_requests) == Len(request_times) > max_requests

\* line 27
over_limit(request_times, max_requests) == Len(request_times) >= max_requests

\* lines 16-33: what is_allowed returns at time t and the deque it leaves
is_allowed(request_times, t, max_requests, window_seconds) ==
    LET cleaned == clean_old_requests(request_times, t - window_seconds)
    IN  IF over_limit(cleaned, max_requests)
        THEN [allowed |-> FALSE, request_times |-> cleaned]
        ELSE [allowed |-> TRUE, request_times |-> Append(cleaned, t)]

\* lines 11-14: a limiter without recorded requests
LimiterInit ==
    /\ limiter \in {[max_requests |-> m, window_seconds |-> w,
                     requests |-> [identifier \in Identifiers |-> <<>>]] :
                        m \in 0..LimiterMaxRequests, w \in 1..LimiterMaxWindow}
    /\ now = 0
    /\ calls = <<>>
    /\ pc = "limiter"
    /\ state = "NSW"
    /\ SessionIdle
    /\ ParseIdle
    /\ QueryIdle
    /\ SearchIdle
    /\ BulkIdle

LimiterFrame ==
    UNCHANGED <<state, pc, parseVars, queryVars, searchVars, bulkVars, sessionVars>>

\* time.time() of the next call is not before that of the last
Tick ==
    /\ pc = "limiter"
    /\ now < MaxTime
    /\ now' = now + 1
    /\ UNCHANGED <<limiter, calls>>
    /\ LimiterFrame

\* a call of is_allowed(identifier) at time now
IsAllowed ==
    /\ pc = "limiter"
    /\ Len(calls) < MaxCalls
    /\ \E identifier \in Identifiers :
           LET r == is_allowed(limiter.requests[identifier], now, limiter.max_requests,
                               limiter.window_seconds)
           IN  /\ limiter' = [limiter EXCEPT !.requests[identifier] = r.request_times]
               /\ calls' = Append(calls, [identifier |-> identifier, t |-> now,
                                          allowed |-> r.allowed,
                                          before |-> limiter.requests[identifier],
                                          after |-> r.request_times])
    /\ UNCHANGED now
    /\ LimiterFrame

LimiterNext == Tick \/ IsAllowed

LimiterSpec == LimiterInit /\ [][LimiterNext]_vars

(***************************************************************************)
(* arcgis.py: the session of an ArcGISClient and the requests of the tasks *)
(* of query_parcels_bulk                                                   *)
(***************************************************************************)
SessionMaxIds == 2

\* a state of the loop of query_features and the state of _query_sa_features
SessionStates == {"NSW", "SA"}

\* identifiers of a bulk call: an empty one and a canonical one, or for SA one of each
\* of two schemes
SessionIds(st) ==
    IF st = "SA" THEN {<<"c", "t", "1", "/", "2">>, <<"d", "1", "a", "2">>}
    ELSE {<<>>, CHOOSE id \in QueryIds(st) : id # <<>>}

\* the dicts of a bulk call: up to SessionMaxIds identifiers for a state
SessionItems ==
    UNION {{[state |-> st, parcel_ids |-> ids] :
                ids \in UNION {[1..n -> SessionIds(st)] : n \in 0..SessionMaxIds}} :
               st \in SessionStates}

SessionInputs ==
    {items \in UNION {[1..n -> SessionItems] : n \in 0..BulkMaxStates} :
         \A j, k \in 1..Len(items) : j # k => items[j].state # items[k].state}

\* what the GET of a chunk gives: a failure, or a feature of the service
SessionOutcomes(st) ==
    {[outcome |-> "failed", features |-> <<>>],
     [outcome |-> "features", features |-> <<CHOOSE f \in FeaturePool(st) : TRUE>>]}

\* the values i of range(0, len(values), max_ids_per_chunk)
chunk_starts(values, size) == {i \in 0..(Len(values) - 1) : i % size = 0}

\* the number of GETs of a query_features call: one for every chunk of every scheme
\* query of SA, one for every chunk with a non-empty identifier of another state
task_gets(st, ids, size) ==
    IF st = "SA"
    THEN Cardinality({<<q, i>> \in (1..Len(sa_queries(ids))) \X (0..SessionMaxIds) :
                          i \in chunk_starts(sa_queries(ids)[q].values, size)})
    ELSE Cardinality({i \in chunk_starts(ids, size) :
                          where_conditions_of(chunk_of(ids, i, size)) # <<>>})

NoFlight == [sent |-> 0, responses |-> <<>>]

\* the GETs of a task that have not come back
InFlight(flight) == flight.sent - Len(flight.responses)

\* a task sends the next GET whether or not the last has come back
may_send_at_once(flight) == TRUE

\* lines 313 and 411: await self.session.get(...) suspends the task until the
\* response is there or the GET has raised
may_send(flight) == InFlight(flight) = 0

\* the with statement runs __aexit__ only when its body returns
aexit_runs_on_return(r) == r.kind = "returned"

\* async with: __aexit__ runs however the body ends
aexit_runs(r) == TRUE

\* a bulk call or a search call, before its async with
SessionInit ==
    /\ LimiterIdle
    /\ session = NoSession
    /\ \/ /\ pc = "async with bulk"
          /\ state = "NSW"
          /\ parcel_ids_by_state \in SessionInputs
          /\ bbox \in BBoxes
          /\ max_ids_per_chunk = 1
          /\ attempt = 0
          /\ SearchIdle
       \/ /\ pc = "async with search"
          /\ state \in States
          /\ term \in SearchTerms
          /\ page = 1
          /\ page_size = 10
          /\ attempt = 1
          /\ raised = NoException
          /\ sleeps = 0
          /\ parcel_ids_by_state = <<>>
          /\ bbox = <<>>
          /\ max_ids_per_chunk = 1
    /\ flights = [k \in 1..Len(bulk_tasks(parcel_ids_by_state)) |-> NoFlight]
    /\ tasks = <<>>
    /\ results = <<>>
    /\ result = NoResult
    /\ requests = <<>>
    /\ parcel_ids = <<>>
    /\ queries = <<>>
    /\ query_index = 0
    /\ offset = 0
    /\ all_features = <<>>
    /\ dedup = <<>>
    /\ ParseIdle

SessionFrame ==
    UNCHANGED <<limiterVars, state, parseVars, queryVars, searchVars, parcel_ids_by_state,
                tasks>>

\* lines 86-88: __aenter__ opens the session
SessionEnter ==
    /\ pc \in {"async with bulk", "async with search"}
    /\ session.state = "none"
    /\ session' = [session EXCEPT !.state = "open"]
    /\ pc' = IF pc = "async with bulk" THEN "bulk" ELSE "search"
    /\ UNCHANGED <<flights, results>>
    /\ SessionFrame

\* the task was created by gather and has not ended
Running(k) == k \in 1..Len(tasks) /\ results[k] = Pending

\* lines 313 and 411: the task sends the GET of its next chunk
TaskSend ==
    /\ \E k \in 1..Len(tasks) :
           /\ Running(k)
           /\ ~task_raises(tasks[k].state, tasks[k].parcel_ids, bbox)
           /\ flights[k].sent
                  < task_gets(tasks[k].state, tasks[k].parcel_ids, max_ids_per_chunk)
           /\ may_send(flights[k])
           /\ flights' = [flights EXCEPT ![k].sent = @ + 1]
    /\ UNCHANGED <<pc, session, results>>
    /\ SessionFrame

\* lines 313-341 and 411-423: the GET of a task comes back, or has raised
TaskReceive ==
    /\ \E k \in 1..Len(tasks) :
           /\ Running(k)
           /\ InFlight(flights[k]) > 0
           /\ \E response \in SessionOutcomes(tasks[k].state) :
                  flights' = [flights EXCEPT ![k].responses = Append(@, response)]
    /\ UNCHANGED <<pc, session, results>>
    /\ SessionFrame

\* lines 343-344 and 425-426: the task returns after the last chunk
TaskEnds ==
    /\ \E k \in 1..Len(tasks) :
           /\ Running(k)
           /\ ~task_raises(tasks[k].state, tasks[k].parcel_ids, bbox)
           /\ Len(flights[k].responses)
                  = task_gets(tasks[k].state, tasks[k].parcel_ids, max_ids_per_chunk)
           /\ results' = [results EXCEPT
                              ![k] = [kind |-> "returned",
                                      features |-> task_features(tasks[k].state,
                                                                 flights[k].responses)]]
    /\ UNCHANGED <<pc, session, flights>>
    /\ SessionFrame

\* lines 90-91 and 635, main.py 1048: the with statement is left
WithExit ==
    /\ pc = "done"
    /\ session.state = "open"
    /\ session' = IF aexit_runs(result)
                  THEN [state |-> "closed", closes |-> session.closes + 1]
                  ELSE session
    /\ pc' = "left"
    /\ UNCHANGED <<flights, results>>
    /\ SessionFrame

SessionNext ==
    \/ SessionEnter
    \/ BulkNoTasks
    \/ BulkGather
    \/ TaskRaises
    \/ TaskSend
    \/ TaskReceive
    \/ TaskEnds
    \/ BulkReturn
    \/ SearchUnsupported
    \/ SearchNoTerm
    \/ SearchHTTPError
    \/ SearchErrorPayload
    \/ SearchResults
    \/ SearchRetry
    \/ SearchReraise
    \/ WithExit

SessionSpec == SessionInit /\ [][SessionNext]_vars

(***************************************************************************)
(* Properties of parse_parcel_input                                        *)
(***************************************************************************)
\* the call of parse_parcel_input has returned
Parsed == pc \in {"parsed", "renormalized"}

\* the fragments of the call
CallFragments == Fragments(state, raw_text)

\* the numeric range a NSW line holds, <<start, end, plan>> with the plan as
\* _normalize_plan gives it (<<>> for a plan it rejects); <<>> for another line
NumericRange(line) ==
    LET Numeric(m) ==
            IF m # <<>> /\ AllIn(m[1], Digits) /\ AllIn(m[2], Digits)
            THEN <<Str2Int(m[1]), Str2Int(m[2]), nsw_normalize_plan(m[3])>>
            ELSE <<>>
    IN  Numeric(nsw_range_match(line))

\* how often a fragment occurs among the fragments of the call
Occurrences(fragment) ==
    Cardinality({k \in 1..Len(CallFragments) : CallFragments[k] = fragment})

\* the valid entries and the malformed entries of a fragment
ValidOf(fragment) == SelectSeq(valid, LAMBDA p : p.raw = fragment)

MalformedOf(fragment) == SelectSeq(malformed, LAMBDA e : e.raw = fragment)

\* C1 as stated: for every state and raw text, len(valid) + len(malformed) is the
\* number of fragments the splitter of the state produces
C1_OneEntryPerFragment ==
    Parsed => Len(valid) + Len(malformed) = Len(CallFragments)

\* the entries fragment k of the call accounts for: the lots of a NSW range that
\* is expanded, none for a QLD or SA fragment whose id an earlier fragment of the
\* call gave, one otherwise
EntriesOfFragment(k) ==
    LET Expanded(m) ==
            IF m # <<>> /\ m[3] # <<>> /\ m[1] <= m[2] /\ m[2] - m[1] <= 200
            THEN m[2] - m[1] + 1
            ELSE 1
        Repeated(r) ==
            r.ok /\ \E j \in 1..(k - 1) :
                        /\ Normalize(state, CallFragments[j]).ok
                        /\ Normalize(state, CallFragments[j]).id = r.id
    IN  CASE state = "NSW" -> Expanded(NumericRange(CallFragments[k]))
          [] state \in {"QLD", "SA"} ->
                 IF Repeated(Normalize(state, CallFragments[k])) THEN 0 ELSE 1
          [] OTHER -> 1

\* C1 amended: len(valid) + len(malformed) is the sum over the fragments of one
\* entry each, except that a NSW range line that is expanded counts one entry per
\* lot and a QLD or SA fragment repeating the id of an earlier fragment counts none
C1_EntriesPerFragment ==
    LET Sum[k \in 0..Len(CallFragments)] ==
            IF k = 0 THEN 0 ELSE Sum[k - 1] + EntriesOfFragment(k)
    IN  Parsed => Len(valid) + Len(malformed) = Sum[Len(CallFragments)]

\* three QLD fragments of one parcel have given one valid entry
C1_Witness ==
    /\ Parsed
    /\ state = "QLD"
    /\ Len(CallFragments) = 3
    /\ Len(valid) = 1
    /\ malformed = <<>>

\* C2: a canonical id fed back to the normalizer of its state succeeds and yields
\* the same id, for NSW, QLD, SA and VIC
C2_Idempotent ==
    pc = "renormalized" => renorm.ok /\ renorm.id = valid[renorm.k].id

\* the lot and the plan of a line 'LOT <n> <PLAN>' with a numeric lot, <<>> for
\* another line
LotSentence(line) ==
    LET Sentence(tokens) ==
            IF /\ Len(tokens) = 3
               /\ tokens[1] = S_LOT
               /\ AllIn(tokens[2], Digits)
               /\ NSW_PLAN_PATTERN(tokens[3])
               /\ line = Join(tokens, <<" ">>)
            THEN <<tokens[2], tokens[3]>>
            ELSE <<>>
    IN  Sentence(Tokens(line, {" "}))

\* C3: the NSW line 'LOT <n> <PLAN>' gives the valid entry with id '<n>//<PLAN>',
\* lot '<n>' and plan '<PLAN>', as the line '<n>//<PLAN>' does
C3_LotSentence ==
    LET Slash(p, s) ==
            s # <<>> => /\ p.id = s[1] \o <<"/", "/">> \o s[2]
                        /\ p.lot = s[1]
                        /\ p.plan = s[2]
    IN  Parsed /\ state = "NSW" =>
            /\ \A k \in 1..Len(malformed) : LotSentence(malformed[k].raw) = <<>>
            /\ \A k \in 1..Len(valid) : Slash(valid[k], LotSentence(valid[k].raw))

\* C4: a NSW range line of more than 200 lots gives one malformed entry and no
\* valid entry
C4_OversizedRange ==
    LET Oversized(m) == m # <<>> /\ m[2] - m[1] + 1 > 200
    IN  Parsed /\ state = "NSW" =>
            \A k \in 1..Len(CallFragments) :
                Oversized(NumericRange(CallFragments[k])) =>
                    /\ ValidOf(CallFragments[k]) = <<>>
                    /\ Len(MalformedOf(CallFragments[k])) = Occurrences(CallFragments[k])

\* C5: a NSW range line with end - start = 199 gives no valid entry and one
\* malformed entry whose error says the range is too large
C5_Range200Rejected ==
    LET Spans200(m) == m # <<>> /\ m[2] - m[1] = 199
        TooLarge(entries) ==
            /\ entries # <<>>
            /\ \A k \in 1..Len(entries) :
                   entries[k].error = "Range too large or invalid (max 200 lots)"
    IN  Parsed /\ state = "NSW" =>
            \A k \in 1..Len(CallFragments) :
                Spans200(NumericRange(CallFragments[k])) =>
                    /\ ValidOf(CallFragments[k]) = <<>>
                    /\ TooLarge(MalformedOf(CallFragments[k]))

\* a NSW line 'A-B//PLAN' with numeric A <= B, a plan and at most 200 lots
InCap(m) == m # <<>> /\ m[3] # <<>> /\ m[1] <= m[2] /\ m[2] - m[1] + 1 <= 200

RequestsOfChunk(k) ==
    {j \in 1..Len(requests) :
         requests[j].query = requests[k].query /\ requests[j].start = requests[k].start}

\* C7: a chunk whose request raised is requested again, until it was requested
\* stop_after_attempt times
C7_FailedChunkRetried ==
    pc = "done" =>
        \A k \in 1..Len(requests) :
            requests[k].outcome = "exception" =>
                \/ \E j \in RequestsOfChunk(k) : j > k
                \/ Cardinality(RequestsOfChunk(k)) = stop_after_attempt

\* ceil(N / K) requests, and the IN lists of the requests, one after the other, are
\* the quoted identifiers of the call
ChunkedInOrder ==
    /\ Len(requests) =
           (Len(parcel_ids) + max_ids_per_chunk - 1) \div max_ids_per_chunk
    /\ Flatten([k \in 1..Len(requests) |-> requests[k].literals])
           = [k \in 1..Len(parcel_ids) |-> Quoted(parcel_ids[k])]
    /\ \A k \in 1..Len(requests) :
           /\ requests[k].field_name = id_field(state)
           /\ Len(requests[k].literals) <= max_ids_per_chunk

\* a call of a state other than SA with non-empty identifiers is over
NonEmptyIdsDone ==
    /\ pc = "done"
    /\ state # "SA"
    /\ \A k \in 1..Len(parcel_ids) : parcel_ids[k] # <<>>

ProcessedOfRequests ==
    Flatten([k \in 1..Len(requests) |-> process_features(requests[k].features, state)])

\* the request of a chunk of the call failed
ChunkFailed == \E k \in 1..Len(requests) : requests[k].outcome # "features"

\* C9 as stated: when the request of a chunk fails, query_features does not raise
\* and returns the processed features of the other chunks, in the order of the
\* chunks and of the responses
C9_PartialFailure ==
    pc = "done" /\ ChunkFailed =>
        result.kind = "returned" /\ result.features = ProcessedOfRequests

\* of the features of a list that have the same id, the last one, at the place of
\* the first one
LastPerId(features) ==
    LET First(k) == \A j \in 1..(k - 1) : features[j].properties["id"] # features[k].properties["id"]
        Last(k) == \A j \in (k + 1)..Len(features) :
                       features[j].properties["id"] # features[k].properties["id"]
        Firsts == SelectSeq([k \in 1..Len(features) |-> k], First)
        LastOf(f) == CHOOSE k \in 1..Len(features) :
                         Last(k) /\ features[k].properties["id"] = features[f].properties["id"]
    IN  [n \in 1..Len(Firsts) |-> features[LastOf(Firsts[n])]]

\* C9 amended: the same for a state other than SA; for SA the features returned are,
\* of the processed features of the other chunks, one per id: the last one, in the
\* order in which the ids were first seen
C9_PartialFailureById ==
    pc = "done" /\ ChunkFailed =>
        /\ result.kind = "returned"
        /\ result.features = IF state = "SA" THEN LastPerId(ProcessedOfRequests)
                             ELSE ProcessedOfRequests

\* chunk 2 of 3 failed and the features of chunks 1 and 3 were returned
C9_Witness ==
    /\ pc = "done"
    /\ Len(requests) = 3
    /\ requests[1].outcome = "features"
    /\ requests[2].outcome = "exception"
    /\ requests[3].outcome = "features"
    /\ Len(result.features) = 3

\* the column of the scheme parse_sa gave an id
SchemeColumn(id) == IF StartsAt(id, 1, S_SA_TITLE) THEN "title_ref" ELSE "dcdb_id"

\* C10: an id of parse_sa given to query_features for SA is queried against the
\* column of its scheme, title_ref or dcdb_id, and against no other column
C10_ParsedIdsClassified ==
    LET Queried(id, n) == \E k \in 1..Len(queries[n].values) : queries[n].values[k] = id
        InScheme(id) ==
            /\ \E n \in 1..Len(queries) : Queried(id, n)
            /\ \A n \in 1..Len(queries) :
                   Queried(id, n) => queries[n].field_name = SchemeColumn(id)
    IN  state = "SA" /\ pc \in {"loop", "done"} =>
            \A k \in 1..Len(parcel_ids) :
                parcel_ids[k] \in SaParsedIds => InScheme(parcel_ids[k])


\* the attributes of a feature of the map service that hold the identifier of its
\* parcel: the ones _process_feature derives the id from
IdentifierAttributes(st) ==
    CASE st = "NSW" -> {"lotidstring"}
      [] st = "SA" -> {"dcdb_id", "parcel_id", "title_ref"}
      [] st = "VIC" -> {"PARCEL_SPI"}
      [] OTHER -> {id_field(st)}

\* the canonical ids the parser of the state gives for the identifiers a feature holds
ParserIds(st, feature) ==
    LET IdsOf(parsed) == {parsed.valid[k].id : k \in 1..Len(parsed.valid)}
    IN  UNION {IdsOf(parse_parcel_input(st, feature.properties[a])) :
                   a \in {b \in IdentifierAttributes(st) \cap DOMAIN feature.properties :
                              feature.properties[b] # NoneVal}}

\* C11: for NSW, VIC and SA the properties.id the post-processor derives for a
\* feature of a response is the canonical id the parser of the state gives for the
\* identifier of that parcel
C11_ProcessorIdIsParserId ==
    LET SameId(st, feature, processed) ==
            processed # <<>> => processed[1].properties["id"] \in ParserIds(st, feature)
        Same(st, feature) == SameId(st, feature, process_feature(feature, st))
    IN  state \in {"NSW", "VIC", "SA"} /\ pc = "done" =>
            \A k \in 1..Len(requests) :
                \A j \in 1..Len(requests[k].features) :
                    Same(state, requests[k].features[j])

\* C12: within one parse call for QLD or VIC, no two entries of valid have the same
\* canonical id
C12_NoDuplicateIds ==
    Parsed /\ state \in {"QLD", "VIC"} =>
        \A j, k \in 1..Len(valid) : j # k => valid[j].id # valid[k].id


\* C13: search_parcels called for a state other than NSW raises its usage error on
\* the first attempt: there is no further attempt and no backoff wait before the
\* error reaches the caller, and no upstream request is issued
C13_UnsupportedRaisedAtOnce ==
    state # "NSW" =>
        /\ attempt = 1
        /\ sleeps = 0
        /\ requests = <<>>
        /\ pc = "done" => result.kind = "raised" /\ raised = UnsupportedState

\* page < 1, or page_size outside 1..MAX_SEARCH_PAGE_SIZE
InvalidBounds == page < 1 \/ page_size < 1 \/ page_size > MAX_SEARCH_PAGE_SIZE

\* C14: search_parcels with invalid page or page size bounds raises a usage error
\* immediately and issues no upstream request
C14_InvalidBoundsRaise ==
    InvalidBounds =>
        /\ requests = <<>>
        /\ sleeps = 0
        /\ pc = "done" => result.kind = "raised" /\ raised.type = "ValueError"

\* the payload of request k of the call has 'error'
ErrorPayload(k) == requests[k].outcome = "json" /\ "error" \in DOMAIN requests[k].payload

\* C15: when an upstream response to search_parcels carries an error payload,
\* search_parcels raises ArcGISError with the code and the message of that payload,
\* which the endpoint answers with HTTP 502; it returns no list
C15_ErrorPayloadRaises ==
    LET Carried(error_info) ==
            /\ raised.type = "ArcGISError"
            /\ raised.code = Get(error_info, "code", NoneVal)
            /\ raised.message = arcgis_error_message(error_info)
    IN  pc = "done" =>
            \A k \in 1..Len(requests) :
                ErrorPayload(k) =>
                    /\ result.kind = "raised"
                    /\ Carried(requests[k].payload["error"])
                    /\ search_endpoint_status(result, raised) = 502

\* a value of a structured term: [A-Z0-9\-]+
TermValue(v) == v # <<>> /\ AllIn(v, UpperAlnum \cup {"-"})

\* the ways to read a compact term as LOT//PLAN or LOT/SECTION//PLAN:
\* <<lot, section, plan>>, the section <<>> where there is none
StructuredReadings(compact) ==
    LET Piece(a, b) == SubSeq(compact, a, b)
        n == Len(compact)
    IN  {<<Piece(1, a), <<>>, Piece(a + 3, n)>> :
             a \in {x \in 1..n : x + 2 <= n /\ Piece(x + 1, x + 2) = <<"/", "/">>
                                 /\ TermValue(Piece(1, x)) /\ TermValue(Piece(x + 3, n))}}
        \cup
        {<<Piece(1, ab[1]), Piece(ab[1] + 2, ab[2]), Piece(ab[2] + 3, n)>> :
             ab \in {x \in (1..n) \X (1..n) :
                         /\ x[1] + 1 < x[2] /\ x[2] + 2 <= n
                         /\ compact[x[1] + 1] = "/"
                         /\ Piece(x[2] + 1, x[2] + 2) = <<"/", "/">>
                         /\ TermValue(Piece(1, x[1]))
                         /\ TermValue(Piece(x[1] + 2, x[2]))
                         /\ TermValue(Piece(x[2] + 3, n))}}

\* the search term of the call, sanitised, and without its spaces
SanitizedTerm == sanitize_search_term(term)

CompactTerm == RemoveChars(SanitizedTerm, {" "})

\* C17: for a NSW search term that, sanitised and without spaces, reads
\* LOT[/SECTION]//PLAN, the WHERE clause of the request is the conjunction of an
\* equality on the lot field, an equality on the section field when there is a
\* section, and a prefix LIKE on the plan field, with no wildcard LIKE on the raw
\* term; for every other non-empty term it is the disjunction of the wildcard LIKE
\* clauses over the like-fields
C17_StructuredWhere ==
    LET Precise(r) ==
            <<[field |-> "lotnumber", op |-> "=", literal |-> r[1]]>>
            \o (IF r[2] # <<>>
                THEN <<[field |-> "sectionnumber", op |-> "=", literal |-> r[2]]>>
                ELSE <<>>)
            \o <<[field |-> "planlabel", op |-> "UPPER LIKE", literal |-> r[3] \o <<"%">>]>>
        Wildcard(pattern) ==
            [k \in 1..4 |->
                [field |-> <<"planlabel", "lotidstring", "lotnumber", "sectionnumber">>[k],
                 op |-> "UPPER LIKE", literal |-> pattern]]
        Expected(readings, sanitized) ==
            IF readings # {}
            THEN {[connective |-> "AND", clauses |-> Precise(r)] : r \in readings}
            ELSE {[connective |-> "OR",
                   clauses |-> Wildcard(<<"%">> \o ReplaceChar(sanitized, " ", "%") \o <<"%">>)]}
        NoRawWildcard(where, sanitized) ==
            \A c \in 1..Len(where.clauses) :
                where.clauses[c].literal # <<"%">> \o ReplaceChar(sanitized, " ", "%") \o <<"%">>
        Right(where, readings, sanitized) ==
            /\ where \in Expected(readings, sanitized)
            /\ Cardinality(Expected(readings, sanitized)) = 1
            /\ readings # {} => NoRawWildcard(where, sanitized)
    IN  \A k \in 1..Len(requests) :
            Right(requests[k].where, StructuredReadings(CompactTerm), SanitizedTerm)

\* the request of a search for a structured term with a section was answered
C17_Witness ==
    /\ pc = "done"
    /\ Len(requests) >= 1
    /\ requests[1].where.connective = "AND"
    /\ Len(requests[1].where.clauses) = 3

\* the values a list of SQL string literals separated by commas denotes, read as the
\* map service reads it: a literal runs from a quote to the next quote that is not
\* doubled, and '' inside it is one quote; ok is FALSE where the text is no such list
RECURSIVE SqlLiteralsFrom(_, _, _, _)
SqlLiteralsFrom(text, pos, value, values) ==
    IF pos > Len(text) THEN [ok |-> FALSE, values |-> values]
    ELSE IF text[pos] # "'" THEN SqlLiteralsFrom(text, pos + 1, value \o <<text[pos]>>, values)
    ELSE IF pos < Len(text) /\ text[pos + 1] = "'"
    THEN SqlLiteralsFrom(text, pos + 2, value \o <<"'">>, values)
    ELSE IF pos = Len(text) THEN [ok |-> TRUE, values |-> Append(values, value)]
    ELSE IF pos + 2 <= Len(text) /\ text[pos + 1] = "," /\ text[pos + 2] = "'"
    THEN SqlLiteralsFrom(text, pos + 3, <<>>, Append(values, value))
    ELSE [ok |-> FALSE, values |-> values]

SqlLiterals(text) ==
    IF text = <<>> THEN [ok |-> TRUE, values |-> <<>>]
    ELSE IF text[1] # "'" THEN [ok |-> FALSE, values |-> <<>>]
    ELSE SqlLiteralsFrom(text, 2, <<>>, <<>>)

\* the identifiers request k of the call is about: the non-empty ones of its chunk
RequestIds(k) ==
    IF state = "SA"
    THEN chunk_of(queries[requests[k].query].values, requests[k].start, max_ids_per_chunk)
    ELSE SelectSeq(chunk_of(parcel_ids, requests[k].start, max_ids_per_chunk),
                   LAMBDA id : id # <<>>)

\* C16: in the IN list of every request of query_features, for SA too, the single
\* quotes of an identifier are doubled, so that the list reads as exactly the
\* identifiers of the chunk: no identifier ends its literal early
C16_QuotesEscaped ==
    LET Reads(parsed, ids) == parsed.ok /\ parsed.values = ids
    IN  \A k \in 1..Len(requests) :
            Reads(SqlLiterals(Join(requests[k].literals, <<",">>)), RequestIds(k))

\* a request for two identifiers that hold quotes was answered
C16_Witness ==
    /\ pc = "done"
    /\ \E k \in 1..Len(requests) :
           /\ Len(requests[k].literals) = 2
           /\ \A n \in 1..2 : \E c \in 1..Len(RequestIds(k)[n]) : RequestIds(k)[n][c] = "'"


\* the ways to read a QLD fragment as one of the three documented spellings of a
\* lot, a plan prefix of 1 to 4 letters and a plan number: compact
\* '<lot><prefix><number>', spaced '<lot> <prefix> <number>' and the sentence
\* 'Lot <lot> on <prefix><number>', in any letter case
QldSpellings(fragment) ==
    LET text == Upper(fragment)
        n == Len(text)
        Piece(a, b) == IF b > n THEN <<>> ELSE SubSeq(text, a, b)
        IsLot(v) ==
            /\ v # <<>>
            /\ \/ AllIn(v, Digits)
               \/ Len(v) >= 2 /\ AllIn(SubSeq(v, 1, Len(v) - 1), Digits)
                  /\ v[Len(v)] \in UpperLetters
        IsPrefix(v) == Len(v) \in 1..4 /\ AllIn(v, UpperLetters)
        IsNumber(v) == v # <<>> /\ AllIn(v, Digits)
        Spelling(form, lot, prefix, number) ==
            [form |-> form, lot |-> lot, prefix |-> prefix, number |-> number]
        Cuts == {x \in (1..n) \X (1..n) : x[1] < x[2] /\ x[2] < n}
        Compact ==
            {Spelling("compact", Piece(1, x[1]), Piece(x[1] + 1, x[2]), Piece(x[2] + 1, n)) :
                 x \in {y \in Cuts : /\ IsLot(Piece(1, y[1]))
                                     /\ IsPrefix(Piece(y[1] + 1, y[2]))
                                     /\ IsNumber(Piece(y[2] + 1, n))}}
        Spaced ==
            {Spelling("spaced", Piece(1, x[1] - 1), Piece(x[1] + 1, x[2] - 1), Piece(x[2] + 1, n)) :
                 x \in {y \in Cuts : /\ text[y[1]] = " " /\ text[y[2]] = " "
                                     /\ IsLot(Piece(1, y[1] - 1))
                                     /\ IsPrefix(Piece(y[1] + 1, y[2] - 1))
                                     /\ IsNumber(Piece(y[2] + 1, n))}}
        Sentence ==
            {Spelling("sentence", Piece(5, x[1] - 1), Piece(x[1] + 4, x[2]), Piece(x[2] + 1, n)) :
                 x \in {y \in Cuts : /\ Piece(1, 4) = <<"L", "O", "T", " ">>
                                     /\ Piece(y[1], y[1] + 3) = <<" ", "O", "N", " ">>
                                     /\ y[1] + 3 < y[2]
                                     /\ IsLot(Piece(5, y[1] - 1))
                                     /\ IsPrefix(Piece(y[1] + 4, y[2]))
                                     /\ IsNumber(Piece(y[2] + 1, n))}}
    IN  Compact \cup Spaced \cup Sentence

\* the fragment gave no malformed entry and valid holds the id of the spelling
NormalizedTo(fragment, spelling) ==
    /\ MalformedOf(fragment) = <<>>
    /\ \E j \in 1..Len(valid) : valid[j].id = spelling.lot \o spelling.prefix \o spelling.number

TitleText(raw) == Strip(RemoveChars(Upper(raw), {" "}))

\* an entry of the title scheme for the title text t, and an entry of the DCDB scheme
TitleEntry(p, t) ==
    /\ p.id = <<"S", "A", ":", "T", "I", "T", "L", "E", ":">> \o t
    /\ p.volume # NoneVal /\ p.folio # NoneVal
    /\ p.volume \o <<"/">> \o p.folio = t
    /\ p.plan = NoneVal /\ p.lot = NoneVal

DcdbEntry(p) ==
    /\ p.plan # NoneVal /\ p.lot # NoneVal
    /\ p.id = <<"S", "A", ":", "D", "C", "D", "B", ":">> \o p.plan \o p.lot
    /\ p.volume = NoneVal /\ p.folio = NoneVal

\* C19: parse_sa gives every valid entry exactly one scheme, in a fixed priority: an
\* entry whose text matches the title pattern has the id SA:TITLE:<ref> with volume
\* and folio set and plan and lot unset, every other valid entry has the id
\* SA:DCDB:<plan><lot> with plan and lot set and volume and folio unset; a fragment
\* that matches the title pattern is never malformed and its title id is in valid
C19_SchemePriority ==
    LET Entry(p, t) == IF SA_TITLE_REF_PATTERN(t) THEN TitleEntry(p, t) ELSE DcdbEntry(p)
        TitleFragment(fragment, t) ==
            SA_TITLE_REF_PATTERN(t) =>
                /\ MalformedOf(fragment) = <<>>
                /\ \E j \in 1..Len(valid) : TitleEntry(valid[j], t)
    IN  Parsed /\ state = "SA" =>
            /\ \A j \in 1..Len(valid) : Entry(valid[j], TitleText(valid[j].raw))
            /\ \A k \in 1..Len(CallFragments) :
                   TitleFragment(CallFragments[k], TitleText(CallFragments[k]))

\* one call gave an entry of the title scheme and an entry of the DCDB scheme
C19_Witness ==
    /\ Parsed
    /\ state = "SA"
    /\ \E j, k \in 1..Len(valid) :
           /\ SA_TITLE_REF_PATTERN(TitleText(valid[j].raw))
           /\ ~SA_TITLE_REF_PATTERN(TitleText(valid[k].raw))
           /\ valid[k].plan # NoneVal


\* the features the tasks that returned gave, in the order of the tasks
SucceededFeatures ==
    Flatten([k \in 1..Len(results) |->
                 IF results[k].kind = "returned" THEN results[k].features ELSE <<>>])

BulkDone == pc = "done" /\ tasks # <<>>

\* C20: when query_parcels_bulk ends, every task has ended (a task that raised did not
\* cancel the others), the call returned and did not raise, and its result is exactly
\* the features of the tasks that returned: a task that raised contributes none
C20_FailuresIsolated ==
    BulkDone =>
        /\ \A k \in 1..Len(tasks) : results[k].kind \in {"raised", "returned"}
        /\ result.kind = "returned"
        /\ result.features = SucceededFeatures

\* the isolation alone: every task ended, the call returned, and its result has no
\* feature but those of the tasks that returned, in their order
C20_Isolation ==
    BulkDone =>
        /\ \A k \in 1..Len(tasks) : results[k].kind \in {"raised", "returned"}
        /\ result.kind = "returned"
        /\ result.features = SelectSeq(SucceededFeatures, feature_validates)


(***************************************************************************)
(* Properties of the order, the errors and the splitting of a parse call   *)
(***************************************************************************)
\* the first and the last position of a text among the fragments
FirstAt(fragments, text) ==
    CHOOSE k \in 1..Len(fragments) :
        fragments[k] = text /\ \A j \in 1..(k - 1) : fragments[j] # text

LastAt(fragments, text) ==
    CHOOSE k \in 1..Len(fragments) :
        fragments[k] = text /\ \A j \in (k + 1)..Len(fragments) : fragments[j] # text

\* every entry is of a fragment, and no entry follows an entry of a fragment that
\* comes after all the places of its own fragment
InFragmentOrder(entries, fragments) ==
    LET Ordered(first, last) ==
            \A p, q \in 1..Len(entries) : p < q => first[p] <= last[q]
    IN  /\ \A p \in 1..Len(entries) :
               \E k \in 1..Len(fragments) : fragments[k] = entries[p].raw
        /\ Ordered([p \in 1..Len(entries) |-> FirstAt(fragments, entries[p].raw)],
                   [p \in 1..Len(entries) |-> LastAt(fragments, entries[p].raw)])

\* C22: for every state both lists of a parse call keep the order of the fragments:
\* the valid entries of an earlier fragment precede those of a later fragment, and
\* likewise the malformed entries
C22_FragmentOrder ==
    Parsed =>
        /\ InFragmentOrder(valid, CallFragments)
        /\ InFragmentOrder(malformed, CallFragments)

\* a call gave valid entries of two fragments and a malformed entry of a third
C22_Witness ==
    /\ Parsed
    /\ Len(valid) >= 2
    /\ valid[1].raw # valid[2].raw
    /\ malformed # <<>>

\* the fragment is one the parser of the state cannot normalize
Unnormalizable(st, fragment) ==
    IF st = "NSW" THEN nsw_parse_line(fragment).malformed # <<>>
    ELSE ~Normalize(st, fragment).ok

\* C23: for each state parsing returns for any raw text, and every fragment that
\* cannot be normalized is a MalformedEntry with the text of the fragment and an
\* error that is not empty, while the fragments that can be normalized have their
\* valid entries; no other entry is malformed
C23_ErrorsAreData ==
    LET Reported(fragment) ==
            /\ Len(MalformedOf(fragment)) = Occurrences(fragment)
            /\ ValidOf(fragment) = <<>>
        Kept(fragment, r) ==
            /\ MalformedOf(fragment) = <<>>
            /\ IF state = "NSW" THEN ValidOf(fragment) # <<>>
               ELSE \E j \in 1..Len(valid) : valid[j].id = r.id
    IN  Parsed =>
              /\ \A k \in 1..Len(CallFragments) :
                     IF Unnormalizable(state, CallFragments[k])
                     THEN Reported(CallFragments[k])
                     ELSE Kept(CallFragments[k], Normalize(state, CallFragments[k]))
              /\ \A k \in 1..Len(malformed) :
                     /\ malformed[k].error # ""
                     /\ \E j \in 1..Len(CallFragments) : CallFragments[j] = malformed[k].raw

\* a call gave a malformed entry between the valid entries of its siblings
C23_Witness ==
    /\ Parsed
    /\ Len(CallFragments) = 3
    /\ Len(malformed) = 1
    /\ malformed[1].raw = CallFragments[2]
    /\ Len(valid) >= 2
    /\ valid[1].raw = CallFragments[1]
    /\ valid[Len(valid)].raw = CallFragments[3]

\* the text holds a delimiter of prose: a newline, a comma, a semicolon or the
\* whole word 'and'
HoldsDelimiter(text) ==
    \E k \in 1..Len(text) :
        \/ text[k] \in {"\n", ",", ";"}
        \/ /\ StartsAt(Upper(text), k, <<"A", "N", "D">>)
           /\ WordBoundary(text, k)
           /\ WordBoundary(text, k + 3)

\* the text holds a delimiter beside other text ('X and Y'), so that splitting on
\* the delimiters gives other fragments than the text
SplitsFurther(text) ==
    HoldsDelimiter(text) /\ ~AllIn(Upper(text), {",", ";", " ", "&", "A", "N", "D"})

\* C24: for QLD and for SA the raw text is split on newline, comma, semicolon and
\* the word 'and', so that 'X and Y' on a line is the two fragments X and Y and no
\* fragment holds a delimiter beside other text; for NSW and VIC the fragments are
\* the lines
C24_Delimiters ==
    Parsed =>
        /\ state \in {"QLD", "SA"} =>
               \A k \in 1..Len(CallFragments) : ~SplitsFurther(CallFragments[k])
        /\ state \in {"NSW", "VIC"} =>
               CallFragments = StrippedNonEmpty(SplitKeep(raw_text, {"\n"}))

\* the same for QLD, NSW and VIC alone
C24_DelimitersButSA == state # "SA" => C24_Delimiters

\* the plan is a prefix of 1 to 4 letters and a number
PrefixedPlan(plan) ==
    LET Prefixed(n) ==
            n \in 1..4 /\ n < Len(plan) /\ AllIn(SubSeq(plan, n + 1, Len(plan)), Digits)
    IN  plan # NoneVal /\ Prefixed(RunLen(plan, 1, UpperLetters))

\* C28: for QLD two fragments that normalize to the same id have the same lot and
\* the same plan, so the compact and the spaced spelling of a parcel give the same
\* (id, lot, plan), the id is the lot followed by the plan, and the plan starts with
\* its prefix of 1 to 4 letters
C28_ComponentsOfId ==
    LET Same(a, b) == a.ok /\ b.ok /\ a.id = b.id => a.lot = b.lot /\ a.plan = b.plan
        Formed(a) == a.ok => a.id = a.lot \o a.plan /\ PrefixedPlan(a.plan)
    IN  Parsed /\ state = "QLD" =>
            \A j, k \in 1..Len(CallFragments) :
                /\ Formed(Normalize("QLD", CallFragments[j]))
                /\ Same(Normalize("QLD", CallFragments[j]), Normalize("QLD", CallFragments[k]))

\* the id is the lot followed by the plan and the plan is a prefix and a number
C28_Formed ==
    Parsed /\ state = "QLD" =>
        \A k \in 1..Len(valid) :
            valid[k].id = valid[k].lot \o valid[k].plan /\ PrefixedPlan(valid[k].plan)

(***************************************************************************)
(* Properties of the responses of query_features                           *)
(***************************************************************************)
\* the processed features of the responses whose outcome is one of a set, in the
\* order of the requests
ProcessedOf(outcomes) ==
    Flatten([k \in 1..Len(requests) |->
                 IF requests[k].outcome \in outcomes
                 THEN process_features(requests[k].features, state)
                 ELSE <<>>])

\* what query_features returns when the features of a list are collected
ReturnedOf(processed) == IF state = "SA" THEN LastPerId(processed) ELSE processed

\* C25: in query_features, for every state, a response that has an error field
\* contributes no features, whatever else it holds, and the call goes on to the
\* next chunk and returns: the result is made of the responses without an error
\* field
C25_ErrorFieldContributesNothing ==
    LET ErrorField(k) == requests[k].outcome \in {"error", "features_and_error"}
    IN  pc = "done" /\ (\E k \in 1..Len(requests) : ErrorField(k)) =>
            /\ result.kind = "returned"
            /\ result.features = ReturnedOf(ProcessedOf({"features"}))

\* the same for the responses that have an error field and no features field
C25_ErrorFieldAlone ==
    pc = "done" /\ (\E k \in 1..Len(requests) : requests[k].outcome = "error") =>
        /\ result.kind = "returned"
        /\ result.features = ReturnedOf(ProcessedOf({"features", "features_and_error"}))

\* the names of the standardized fields of a feature
StandardFields == {"id", "state", "name", "area_ha"}

\* the feature of a response without the server attributes that have these names
WithoutStandardFields(feature) ==
    [geometry |-> feature.geometry,
     properties |-> [k \in (DOMAIN feature.properties) \ StandardFields |->
                         feature.properties[k]]]

\* the features of the responses of the call that were collected
ResponseFeaturesOfCall ==
    Flatten([k \in 1..Len(requests) |-> requests[k].features])

\* C29: every feature query_features returns has properties.state equal to the state
\* of the call and properties.id, name and area_ha as the post-processor derives
\* them from the feature, whatever the names of the server attributes: a server
\* attribute named id, state, name or area_ha replaces no standardized field
C29_StandardFieldsKept ==
    LET Kept(f, derived) ==
            /\ derived # <<>>
            /\ \A field \in StandardFields :
                   f.properties[field] = derived[1].properties[field]
        Standard(f, raws) ==
            /\ f.properties["state"] = StateValue(state)
            /\ \E k \in 1..Len(raws) :
                   Kept(f, process_feature(WithoutStandardFields(raws[k]), state))
    IN  pc = "done" /\ result.kind = "returned" =>
            \A k \in 1..Len(result.features) :
                Standard(result.features[k], ResponseFeaturesOfCall)

\* the same for the responses whose features have no attribute of such a name
C29_StandardFieldsOfOtherNames ==
    (\A k \in 1..Len(ResponseFeaturesOfCall) :
         DOMAIN ResponseFeaturesOfCall[k].properties \cap StandardFields = {})
    => C29_StandardFieldsKept

\* the id of a standardized feature
IdOf(f) == f.properties["id"]

\* the features of the responses of the call that have a geometry
ProcessableOfCall == SelectSeq(ResponseFeaturesOfCall, LAMBDA f : Truthy(f.geometry))

\* the canonical id the post-processor derives from the attributes of a feature
DerivedId(feature) == IdOf(process_feature(WithoutStandardFields(feature), state)[1])

\* C26: for SA, of the features of the responses of a call that derive the same
\* canonical id the result holds exactly one, the one of the response processed last
\* (the queries in the order parcel_id, title_ref, dcdb_id, the chunks of a query in
\* their order)
C26_LastWriteWins ==
    LET Last(raws, ids, k) == \A j \in (k + 1)..Len(raws) : ids[j] # ids[k]
        OnePerId(raws, ids, returned) ==
            /\ Len(returned) = Cardinality({ids[k] : k \in 1..Len(raws)})
            /\ \A k \in 1..Len(raws) :
                   Last(raws, ids, k) =>
                       \E j \in 1..Len(returned) :
                           <<returned[j]>> = process_feature(raws[k], state)
        Derived(raws) == OnePerId(raws, [k \in 1..Len(raws) |-> DerivedId(raws[k])],
                                  result.features)
    IN  pc = "done" /\ state = "SA" /\ result.kind = "returned" =>
            Derived(ProcessableOfCall)

\* the same by the id the returned features carry: of the processed features that
\* have the same properties.id the result holds the last one and no other
C26_LastWriteWinsOfReturnedId ==
    LET LastOf(processed, id) ==
            processed[CHOOSE k \in 1..Len(processed) :
                          /\ IdOf(processed[k]) = id
                          /\ \A j \in (k + 1)..Len(processed) : IdOf(processed[j]) # id]
        OnePerId(processed, returned) ==
            /\ \A k \in 1..Len(processed) :
                   \E j \in 1..Len(returned) :
                       /\ returned[j] = LastOf(processed, IdOf(processed[k]))
                       /\ \A n \in 1..Len(returned) :
                              IdOf(returned[n]) = IdOf(processed[k]) => n = j
            /\ \A j \in 1..Len(returned) :
                   \E k \in 1..Len(processed) : IdOf(processed[k]) = IdOf(returned[j])
    IN  pc = "done" /\ state = "SA" /\ result.kind = "returned" =>
            OnePerId(ProcessedOf({"features", "features_and_error"}), result.features)

\* C26 for the responses whose features have no attribute named as a standardized
\* field
C26_LastWriteWinsOfOtherNames ==
    (\A k \in 1..Len(ResponseFeaturesOfCall) :
         DOMAIN ResponseFeaturesOfCall[k].properties \cap StandardFields = {})
    => C26_LastWriteWins

\* the calls of an identifier that returned True at a time of [start, start + window]
AllowedWithin(identifier, start, window) ==
    {k \in DOMAIN calls : /\ calls[k].identifier = identifier
                          /\ calls[k].allowed
                          /\ calls[k].t >= start
                          /\ calls[k].t <= start + window}

\* C30: after any sequence of is_allowed calls at non-decreasing times, no interval of
\* window_seconds holds more than max_requests calls of one identifier that returned
\* True, and a call that returned False left the recorded times of its identifier as
\* they were.
C30_SlidingWindow ==
    pc = "limiter" =>
        /\ \A identifier \in Identifiers, start \in 0..MaxTime :
               Cardinality(AllowedWithin(identifier, start, limiter.window_seconds))
                   <= limiter.max_requests
        /\ \A k \in DOMAIN calls : ~calls[k].allowed => calls[k].after = calls[k].before

\* a call is refused at the limit, and after the window has passed the times recorded
\* are dropped and a call of the same identifier is allowed again
C30_Witness ==
    /\ pc = "limiter"
    /\ limiter.max_requests = 2
    /\ \E j, k \in DOMAIN calls :
           /\ j < k
           /\ calls[j].identifier = calls[k].identifier
           /\ ~calls[j].allowed
           /\ Len(calls[j].before) = 2
           /\ calls[k].allowed
           /\ Len(calls[k].after) < Len(calls[k].before) + 1

\* no task has more than one GET in flight
OneInFlight == \A k \in DOMAIN flights : InFlight(flights[k]) <= 1

\* a step that sends a GET of a task finds every earlier GET of that task back
SentAfterLast ==
    \A k \in DOMAIN flights :
        (k \in DOMAIN flights' /\ flights'[k].sent > flights[k].sent)
            => Len(flights[k].responses) = flights[k].sent

\* C27: within one query_features call the chunk requests are sequential: at most one
\* request of the call is in flight at any time, and the request of a chunk is sent
\* only after the request of the chunk before has completed or failed; requests of
\* the calls of different states of one bulk call are in flight together.
C27_ChunksSequential == []OneInFlight /\ [][SentAfterLast]_vars

\* the second chunk of one task and a chunk of the task of another state are in flight
C27_Witness ==
    /\ pc = "gather"
    /\ Len(tasks) = 2
    /\ tasks[1].state # tasks[2].state
    /\ InFlight(flights[1]) = 1
    /\ InFlight(flights[2]) = 1
    /\ \E k \in 1..2 : flights[k].sent = 2 /\ Len(flights[k].responses) = 1

\* no GET is sent on a session that is not open
SentInWith ==
    session.state # "open"
        => /\ requests' = requests
           /\ \A k \in DOMAIN flights : flights'[k].sent = flights[k].sent

\* the session of a call that has left its with statement was closed, once
Released ==
    /\ session.closes <= 1
    /\ session.state = "closed" <=> session.closes = 1
    /\ pc = "left" => session.state = "closed"

\* C21: the session opened for a bulk query or a search is released on every exit
\* path (no state has identifiers, all tasks succeed, some or all tasks fail, the
\* search raises), it is closed exactly once and no request is issued on it after
\* it is closed.
C21_SessionReleased == []Released /\ [][SentInWith]_vars

\* a bulk call with no tasks has left the with statement
LeftWithoutTasks == pc = "left" /\ parcel_ids_by_state # <<>> /\ tasks = <<>>

\* a bulk call whose tasks all returned after a GET has left the with statement
LeftAfterSuccess ==
    /\ pc = "left"
    /\ Len(tasks) = 2
    /\ \A k \in 1..2 : results[k].kind = "returned" /\ flights[k].sent > 0

\* a bulk call whose tasks all raised has left the with statement
LeftAfterAllFailed ==
    /\ pc = "left"
    /\ Len(tasks) = 2
    /\ \A k \in 1..2 : results[k].kind = "raised"

\* a search that raised has left the with statement
LeftAfterSearchRaised ==
    /\ pc = "left"
    /\ term # <<>>
    /\ result.kind = "raised"
    /\ requests # <<>>

\* the session is closed, once, after a bulk call of which one task raised and the
\* other returned
C21_Witness ==
    /\ pc = "left"
    /\ session = [state |-> "closed", closes |-> 1]
    /\ Len(tasks) = 2
    /\ \E j, k \in 1..2 : results[j].kind = "raised" /\ results[k].kind = "returned"
====
